---- MODULE Spec2Model ----
(***************************************************************************)
(* State-machine model of the multi-device latency chart:                  *)
(*   - the range brush (components/ExternalBrush.tsx) wired to the chart   *)
(*     view's range state (components/MultiDeviceLatencyChart.tsx);        *)
(*   - the record parsers parseTSV / parseCSV of the chart view;           *)
(*   - the chart view's load effect, the sparse-device synthesizer and the *)
(*     data derived for display: outage ranges and band-split rows.        *)
(* A JavaScript null drag mode is written "idle".                          *)
(***************************************************************************)
EXTENDS Integers, Sequences, FiniteSets, TLC

VARIABLES
    total,               \* data.length seen by the brush and the chart
    range,               \* chart view state: [left, right]
    localStart,          \* brush state localStart
    localEnd,            \* brush state localEnd
    dragging,            \* brush state dragging: "idle" (null), "left", "right", "range"
    rangeDragOffsetRef,  \* brush ref: pointer offset captured on band pointer-down
    renderThrew,         \* the last render of the brush threw (labelForIndex on a missing record)
    onChangeCalls,       \* number of onChange callbacks made so far
    lastChange,          \* argument of the last onChange callback, <<startIndex, endIndex>>
    lastEvent,           \* kind of the last event dispatched
    lastPx,              \* pointer position (track pixels) of the last pointer event that had one
    nEvents,             \* number of events dispatched so far
    brushMounted,        \* the brush is in the committed tree
    registered,          \* listeners and observers the brush has registered, per kind
    cleanups,            \* cleanup functions React holds for the brush's effects
    fileLines,           \* lines of the dataset text handed to a parser, each a sequence of fields
    parseCall,           \* the parser called: <<"none">>, <<"tsv">> or <<"csv", header>>
    parseResult,         \* outcome of the parser call: not run, threw, or rows and names
    data,                \* chart view state data: the rows on display
    deviceNames,         \* chart view state deviceNames: device id -> display name
    loading,             \* chart view state loading
    error,               \* chart view state error: "" is null
    selectedClients,     \* chart view state selectedClients: a set, empty for "all"
    isolatedDevice,      \* chart view state isolatedDevice: "" is null
    loads,               \* the load() calls started so far: position and cancelled flag of each
    responses            \* what the server answers for /latency.csv and /latency.tsv

domVars == <<brushMounted, registered, cleanups>>

brushVars == <<total, range, localStart, localEnd, dragging, rangeDragOffsetRef,
               renderThrew, onChangeCalls, lastChange, lastEvent, lastPx, nEvents,
               domVars>>

parseVars == <<fileLines, parseCall, parseResult>>

filterVars == <<selectedClients, isolatedDevice>>

viewVars == <<data, deviceNames, loading, error, filterVars>>

loadVars == <<loads, responses>>

chartVars == <<viewVars, loadVars>>

vars == <<brushVars, parseVars, chartVars>>

\* the chart view is not part of the run: its state stays as constructed
ChartNotMounted ==
    /\ data = <<>>
    /\ deviceNames = <<>>
    /\ loading = TRUE
    /\ error = ""
    /\ selectedClients = {}
    /\ isolatedDevice = ""
    /\ loads = <<>>
    /\ responses = <<>>

----------------------------------------------------------------------------
(* Bounds of the model *)

MaxShortTotal == 8
LongTotal == 400
TrackWidth == 4
PxMargin == 1
MaxEvents == 6
MaxPropsTotal == 2
MaxLines == 3

(* Program constants *)

minSelectionPoints == 6
maxSelectionPoints == 360
InitialWindowLast == 167

----------------------------------------------------------------------------
(* Helpers *)

Min(a, b) == IF a < b THEN a ELSE b
Max(a, b) == IF a > b THEN a ELSE b

\* ExternalBrush.tsx clamp: Math.min(Math.max(value, min), max)
clamp(value, min, max) == Min(Max(value, min), max)

\* variant: Math.floor in place of Math.round
Round_Floor(num, den) == num \div den

\* Math.round of the rational num/den (den > 0): nearest integer, halves up
Round(num, den) == (2 * num + den) \div (2 * den)

\* pointer positions px = e.clientX - rect.left - 16, in track pixels
Pointer == (0 - PxMargin)..(TrackWidth + PxMargin)

\* dataset lengths handed to the brush
Totals == (1..MaxShortTotal) \cup {LongTotal}

indexFromPx(px) ==
    IF total <= 1 THEN 0
    ELSE Round(clamp(px, 0, TrackWidth) * (total - 1), TrackWidth)

\* pxFromIndex(idx) as the fraction <<numerator, denominator>> of a pixel:
\* idx / (total - 1) * w, and 0 when total <= 1
pxFromIndex(idx) == IF total <= 1 THEN <<0, 1>> ELSE <<idx * TrackWidth, total - 1>>

\* indexFromPx at the fractional position num / den (den > 0)
indexFromPxRatio(num, den) ==
    IF total <= 1 THEN 0
    ELSE Round(clamp(num, 0, TrackWidth * den) * (total - 1), TrackWidth * den)

\* labelForIndex reads data[idx][xKey]: a TypeError when data[idx] is undefined
labelForIndexThrows(idx) == ~(idx \in 0..(total - 1))

\* the brush render evaluates labelForIndex(localStart) and labelForIndex(localEnd)
RenderThrows(s, en) == labelForIndexThrows(s) \/ labelForIndexThrows(en)

\* useState initial value of range for a dataset of length len
InitialRange(len) == [left |-> 0, right |-> Max(0, Min(InitialWindowLast, len - 1))]

\* effect on [len]: no change while len = 0
RangeOnLen(prev, len) ==
    IF len = 0 THEN prev
    ELSE [left |-> 0, right |-> Max(prev.right, Min(InitialWindowLast, len - 1))]

----------------------------------------------------------------------------
(* Record parser.  A line is the sequence of its fields (unquoted); a row   *)
(* is a JavaScript object, a function from its keys to their values.  A    *)
(* number is [finite |-> TRUE, v |-> hundredths], or it is not finite and   *)
(* v is its sign: NaN, Infinity, -Infinity.  A string held by a key other  *)
(* than "x" is [text |-> s], so that typeof can tell it from a number.     *)

NaN == [finite |-> FALSE, v |-> 0]
Num(h) == [finite |-> TRUE, v |-> h]
PosInfinity == [finite |-> FALSE, v |-> 1]
NegInfinity == [finite |-> FALSE, v |-> 0 - 1]
Str(s) == [text |-> s]

\* new Date(timeStr.replace(" ", "T") + "Z"): hours after 2025-08-13T00:00Z for
\* the spellings modelled; any other text is an Invalid Date
InstantOf ==
    ("2025-08-13 00:00:00" :> 0) @@ ("2025-08-13 00:00" :> 0) @@
    ("2025-08-13 01:00:00" :> 1) @@ ("2025-08-13 02:00:00" :> 2) @@
    ("2025-08-13 03:00:00" :> 3) @@ ("2025-08-13 04:00:00" :> 4) @@
    ("2025-08-13 05:00:00" :> 5) @@ ("2025-08-13 06:00:00" :> 6) @@
    ("2025-08-13 07:00:00" :> 7)

ValidTime(timeStr) == timeStr \in DOMAIN InstantOf

\* Date.prototype.toISOString of a valid date
toISOString(h) ==
    CASE h = 0 -> "2025-08-13T00:00:00.000Z"
      [] h = 1 -> "2025-08-13T01:00:00.000Z"
      [] h = 2 -> "2025-08-13T02:00:00.000Z"
      [] h = 3 -> "2025-08-13T03:00:00.000Z"
      [] h = 4 -> "2025-08-13T04:00:00.000Z"
      [] h = 5 -> "2025-08-13T05:00:00.000Z"
      [] h = 6 -> "2025-08-13T06:00:00.000Z"
      [] h = 7 -> "2025-08-13T07:00:00.000Z"

\* +new Date(iso) of a string toISOString made
DateOf(iso) == CHOOSE h \in {InstantOf[t] : t \in DOMAIN InstantOf} : toISOString(h) = iso

\* Number(latencyStr) for the texts modelled; any other text is NaN
NumberOf(latencyStr) ==
    CASE latencyStr = "7.0" -> Num(700)
      [] latencyStr = "9.64" -> Num(964)
      [] latencyStr = "14.14" -> Num(1414)
      [] latencyStr = "14.71" -> Num(1471)
      [] latencyStr = "21.58" -> Num(2158)
      [] latencyStr = "7.66" -> Num(766)
      [] latencyStr = "12.17" -> Num(1217)
      [] latencyStr = "15.26" -> Num(1526)
      [] latencyStr = "17.4" -> Num(1740)
      [] latencyStr = "25.0" -> Num(2500)
      [] latencyStr = "4.07" -> Num(407)
      [] latencyStr = "10.72" -> Num(1072)
      [] latencyStr = "15.80" -> Num(1580)
      [] latencyStr = "18.22" -> Num(1822)
      [] latencyStr = "24.68" -> Num(2468)
      [] latencyStr = "Infinity" -> PosInfinity
      [] latencyStr = "-Infinity" -> NegInfinity
      [] OTHER -> NaN

\* normalizeBand over the device names and band texts modelled: "" when no
\* pattern matches (null)
normalizeBand(raw) ==
    CASE raw = "2.4GHz" -> "24"
      [] raw = "5GHz mesh" -> "5m"
      [] raw = "Mesh Extender" -> "5m"
      [] raw = "5GHz" -> "5"
      [] OTHER -> ""

BAND_META_PREFIX == "__band:"

\* obj[key] = value
SetKey(obj, key, value) == (key :> value) @@ obj

\* position of the row of tmpByTime keyed dateIso, 0 when there is none
RowIndex(tmp, keys, dateIso) ==
    IF \E i \in 1..Len(keys) : keys[i] = dateIso
    THEN CHOOSE i \in 1..Len(keys) : keys[i] = dateIso
    ELSE 0

\* the loop body shared by both parsers once the fields are read: the row of
\* dateIso is created if missing, then given the latency and the band tag
AddReading(acc, timeStr, deviceId, deviceName, latencyStr, band) ==
    IF ~ValidTime(timeStr) THEN [acc EXCEPT !.threw = TRUE]
    ELSE
        LET dateIso == toISOString(InstantOf[timeStr])
            at == RowIndex(acc.tmp, acc.keys, dateIso)
            keys1 == IF at = 0 THEN Append(acc.keys, dateIso) ELSE acc.keys
            tmp1 == IF at = 0 THEN Append(acc.tmp, ("x" :> dateIso)) ELSE acc.tmp
            i == IF at = 0 THEN Len(tmp1) ELSE at
            row1 == SetKey(tmp1[i], deviceId, NumberOf(latencyStr))
            row2 == IF band # "" THEN SetKey(row1, BAND_META_PREFIX \o deviceId, Str(band))
                    ELSE row1
        IN  [threw |-> FALSE,
             keys |-> keys1,
             tmp |-> [tmp1 EXCEPT ![i] = row2],
             names |-> SetKey(acc.names, deviceId, deviceName),
             nameKeys |-> IF deviceId \in DOMAIN acc.names THEN acc.nameKeys
                          ELSE Append(acc.nameKeys, deviceId)]

\* +new Date(row.x)
RowTime(row) == DateOf(row["x"])

\* Array.prototype.sort((a, b) => +new Date(a.x) - +new Date(b.x)): stable
RECURSIVE InsertByTime(_, _)
InsertByTime(sorted, row) ==
    IF sorted = <<>> THEN <<row>>
    ELSE IF RowTime(sorted[Len(sorted)]) <= RowTime(row) THEN Append(sorted, row)
    ELSE Append(InsertByTime(SubSeq(sorted, 1, Len(sorted) - 1), row), sorted[Len(sorted)])

RECURSIVE SortFrom(_, _, _)
SortFrom(rows, i, sorted) ==
    IF i > Len(rows) THEN sorted
    ELSE SortFrom(rows, i + 1, InsertByTime(sorted, rows[i]))

\* variant: the rows are returned in insertion order
SortByTime_Unsorted(rows) == rows

SortByTime(rows) == SortFrom(rows, 1, <<>>)

\* nameKeys is Object.keys(names): the device ids in the order they were first set
EmptyAcc == [threw |-> FALSE, keys |-> <<>>, tmp |-> <<>>, names |-> <<>>, nameKeys |-> <<>>]

NotParsed == [status |-> "none", rows |-> <<>>, names |-> <<>>, nameKeys |-> <<>>]

\* what the caller of a parser gets: a thrown RangeError, or { rows, names }
Returned(acc) ==
    IF acc.threw THEN [status |-> "threw", rows |-> <<>>, names |-> <<>>, nameKeys |-> <<>>]
    ELSE [status |-> "ok", rows |-> SortByTime(acc.tmp), names |-> acc.names,
          nameKeys |-> acc.nameKeys]

RECURSIVE TSVLoop(_, _, _)
TSVLoop(lines, i, acc) ==
    IF i > Len(lines) \/ acc.threw THEN acc
    ELSE LET parts == lines[i]
         IN  IF Len(parts) < 4 THEN TSVLoop(lines, i + 1, acc)
             ELSE TSVLoop(lines, i + 1,
                          AddReading(acc, parts[1], parts[2], parts[3], parts[4],
                                     normalizeBand(parts[3])))

parseTSV(lines) == Returned(TSVLoop(lines, 1, EmptyAcc))

\* header.indexOf(name), 1-based; 0 when absent
IndexOf(header, name) ==
    IF \E i \in 1..Len(header) : header[i] = name
    THEN CHOOSE i \in 1..Len(header) :
            header[i] = name /\ \A j \in 1..(i - 1) : header[j] # name
    ELSE 0

\* parts[idx]: "" stands for undefined and for the empty field, both falsy
Field(parts, idx) == IF idx \in 1..Len(parts) THEN parts[idx] ELSE ""

\* the band column: the first candidate name, in order, that the header holds
BandCandidates ==
    <<"band", "wifi_band", "connection_band", "connected_band", "uplink", "radio",
      "frequency", "freq">>

BandColumn(header) ==
    LET found == {c \in 1..Len(BandCandidates) : IndexOf(header, BandCandidates[c]) # 0}
    IN  IF found = {} THEN 0
        ELSE IndexOf(header, BandCandidates[CHOOSE c \in found : \A d \in found : c <= d])

RECURSIVE CSVLoop(_, _, _, _)
CSVLoop(header, lines, i, acc) ==
    IF i > Len(lines) \/ acc.threw THEN acc
    ELSE LET parts == lines[i]
             timeStr == Field(parts, IndexOf(header, "timestamp"))
             deviceId == Field(parts, IndexOf(header, "device_id"))
             deviceName == Field(parts, IndexOf(header, "device_name"))
             latencyStr == Field(parts, IndexOf(header, "latency_ms"))
             bandStr == Field(parts, BandColumn(header))
             norm == IF normalizeBand(bandStr) # "" THEN normalizeBand(bandStr)
                     ELSE normalizeBand(deviceName)
         IN  IF Len(parts) < 4 \/ timeStr = "" \/ deviceId = "" \/ latencyStr = ""
             THEN CSVLoop(header, lines, i + 1, acc)
             ELSE CSVLoop(header, lines, i + 1,
                          AddReading(acc, timeStr, deviceId, deviceName, latencyStr, norm))

\* lines are the lines after the header line
parseCSV(header, lines) == Returned(CSVLoop(header, lines, 1, EmptyAcc))

----------------------------------------------------------------------------
(* onMouseMove: the selection computed for a pointer at px, by drag mode *)

maxW == Max(minSelectionPoints, maxSelectionPoints)

\* dragging === "left": s = clamp(target, max(0, en - maxW), en - minSelectionPoints)
DragLeft(px, s, en) ==
    LET target == indexFromPx(px)
        minLeft == Max(0, en - maxW)
        maxLeft == en - minSelectionPoints
    IN  <<clamp(target, minLeft, maxLeft), en>>

\* variant: the lower bound left + minSelectionPoints is not applied
DragRight_NoLowerClamp(px, s, en) ==
    <<s, Min(indexFromPx(px), Min(total - 1, s + maxW))>>

\* dragging === "right": en = clamp(target, s + minSelectionPoints, min(total - 1, s + maxW))
DragRight(px, s, en) ==
    LET target == indexFromPx(px)
        minRight == s + minSelectionPoints
        maxRight == Min(total - 1, s + maxW)
    IN  <<s, clamp(target, minRight, maxRight)>>

\* dragging === "range": the window of the clamped width, anchored at pointer - offset
DragRange(px, s, en, offset) ==
    LET width == clamp(en - s, minSelectionPoints, maxW)
        anchor == indexFromPx(px) - offset
        ns == clamp(anchor, 0, Max(0, total - 1 - width))
    IN  <<ns, ns + width>>

Selection(mode, px, s, en, offset) ==
    CASE mode = "left" -> DragLeft(px, s, en)
      [] mode = "right" -> DragRight(px, s, en)
      [] mode = "range" -> DragRange(px, s, en, offset)

\* the chart's onChange handler: setRange({ left: startIndex, right: endIndex })
onChange(sel) == [left |-> sel[1], right |-> sel[2]]

\* the brush effect on [startIndex, endIndex]: when a prop changed, both local
\* values are set from the props; otherwise the handler's values stand
SyncFromProps(handlerSel, oldRange, newRange) ==
    IF newRange # oldRange THEN <<newRange.left, newRange.right>> ELSE handlerSel

\* the selection band's hit region: [pxFromIndex(localStart), pxFromIndex(localEnd)]
\* with pxFromIndex(i) = i / (total - 1) * w, and 0 when total <= 1
OnBand(px) ==
    IF total <= 1 THEN px = 0
    ELSE /\ Min(localStart, localEnd) * TrackWidth <= px * (total - 1)
         /\ px * (total - 1) <= Max(localStart, localEnd) * TrackWidth

----------------------------------------------------------------------------
(* Effects of the brush: what they register and what their cleanups remove *)

Resources == {"mousemove", "mouseup", "resize", "observer"}

NoneRegistered == [r \in Resources |-> 0]

\* no effect has run: React holds no cleanup
NoCleanups == [drag |-> FALSE, resize |-> "none"]

Unmounted == [reg |-> NoneRegistered, cl |-> NoCleanups]

Dom == [reg |-> registered, cl |-> cleanups]

Add(reg, kinds, n) == [r \in Resources |-> IF r \in kinds THEN reg[r] + n ELSE reg[r]]

\* the effect on []: with window.ResizeObserver (ro) an observer on the track,
\* without it a window resize listener; the cleanup returned undoes that one
resizeEffect(d, ro) ==
    IF ro THEN [reg |-> Add(d.reg, {"observer"}, 1), cl |-> [d.cl EXCEPT !.resize = "disconnect"]]
    ELSE [reg |-> Add(d.reg, {"resize"}, 1),
          cl |-> [d.cl EXCEPT !.resize = "removeEventListener"]]

resizeCleanup(d) ==
    [reg |-> CASE d.cl.resize = "disconnect" -> Add(d.reg, {"observer"}, 0 - 1)
               [] d.cl.resize = "removeEventListener" -> Add(d.reg, {"resize"}, 0 - 1)
               [] OTHER -> d.reg,
     cl |-> [d.cl EXCEPT !.resize = "none"]]

\* the effect on [dragging, onMouseMove, handleMouseUp]: nothing while dragging
\* is null, else both window listeners and a cleanup that removes them
dragEffect(d, mode) ==
    IF mode = "idle" THEN d
    ELSE [reg |-> Add(d.reg, {"mousemove", "mouseup"}, 1), cl |-> [d.cl EXCEPT !.drag = TRUE]]

\* variant: the effect returns no cleanup
dragCleanup_Missing(d) == d

dragCleanup(d) ==
    IF d.cl.drag
    THEN [reg |-> Add(d.reg, {"mousemove", "mouseup"}, 0 - 1), cl |-> [d.cl EXCEPT !.drag = FALSE]]
    ELSE d

\* a committed render that changed a dependency of the drag effect: the cleanup
\* of the last run, then the effect
DragEffectRuns(d, mode) == dragEffect(dragCleanup(d), mode)

\* the brush leaves the tree: React runs the cleanups it holds
Teardown(d) == resizeCleanup(dragCleanup(d))

\* first commit under StrictMode (src/main.tsx): the effects run, their cleanups
\* run, the effects run again; dragging is null.  A production build runs them
\* once, to the same registrations.
Mounting(ro) ==
    LET once == dragEffect(resizeEffect(Unmounted, ro), "idle")
    IN  dragEffect(resizeEffect(Teardown(once), ro), "idle")

SetDom(mounted, d) ==
    /\ brushMounted' = mounted
    /\ registered' = d.reg
    /\ cleanups' = d.cl

\* the render that follows a state update of a mounted brush: a throw takes the
\* tree down, a commit re-runs the drag effect
Rerendered ==
    IF renderThrew' THEN SetDom(FALSE, Teardown(Dom))
    ELSE SetDom(brushMounted, DragEffectRuns(Dom, dragging'))

\* the brush as first rendered with the state the other variables hold
BrushRendered ==
    /\ brushMounted = ~renderThrew
    /\ registered = (IF renderThrew THEN Unmounted ELSE Mounting(TRUE)).reg
    /\ cleanups = (IF renderThrew THEN Unmounted ELSE Mounting(TRUE)).cl

BrushNotRendered ==
    /\ brushMounted = FALSE
    /\ registered = NoneRegistered
    /\ cleanups = NoCleanups

----------------------------------------------------------------------------
(* Events.  The brush is mounted and its last render did not throw. *)

Live == brushMounted /\ ~renderThrew /\ nEvents < MaxEvents

Tick(kind) == lastEvent' = kind /\ nEvents' = nEvents + 1

\* left handle onMouseDown
MouseDownLeft ==
    /\ Live
    /\ dragging' = "left"
    /\ Tick("downLeft")
    /\ UNCHANGED <<total, range, localStart, localEnd, rangeDragOffsetRef,
                   renderThrew, onChangeCalls, lastChange, lastPx, parseVars, chartVars>>
    /\ IF dragging' # dragging THEN Rerendered ELSE UNCHANGED domVars

\* right handle onMouseDown
MouseDownRight ==
    /\ Live
    /\ dragging' = "right"
    /\ Tick("downRight")
    /\ UNCHANGED <<total, range, localStart, localEnd, rangeDragOffsetRef,
                   renderThrew, onChangeCalls, lastChange, lastPx, parseVars, chartVars>>
    /\ IF dragging' # dragging THEN Rerendered ELSE UNCHANGED domVars

\* selection band onMouseDown
MouseDownBand(px) ==
    /\ Live
    /\ OnBand(px)
    /\ dragging' = "range"
    /\ rangeDragOffsetRef' = indexFromPx(px) - localStart
    /\ lastPx' = px
    /\ Tick("downBand")
    /\ UNCHANGED <<total, range, localStart, localEnd, renderThrew,
                   onChangeCalls, lastChange, parseVars, chartVars>>
    /\ IF dragging' # dragging THEN Rerendered ELSE UNCHANGED domVars

\* variant: a move that computes the pair already held is not reported
onMouseMove_SkipsUnchanged(px) ==
    /\ Live
    /\ dragging # "idle"
    /\ LET sel == Selection(dragging, px, localStart, localEnd, rangeDragOffsetRef)
           newRange == onChange(sel)
       IN  /\ range' = newRange
           /\ localStart' = sel[1]
           /\ localEnd' = sel[2]
           /\ onChangeCalls' = IF sel = <<localStart, localEnd>> THEN onChangeCalls
                               ELSE onChangeCalls + 1
           /\ lastChange' = IF sel = <<localStart, localEnd>> THEN lastChange ELSE sel
           /\ renderThrew' = RenderThrows(sel[1], sel[2])
    /\ lastPx' = px
    /\ Tick("move")
    /\ UNCHANGED <<total, dragging, rangeDragOffsetRef, parseVars, chartVars>>
    /\ Rerendered

\* window mousemove while a drag mode is active: onMouseMove, the chart's
\* onChange, the brush's prop-sync effect and the render that follows
onMouseMove(px) ==
    /\ Live
    /\ dragging # "idle"
    /\ LET sel == Selection(dragging, px, localStart, localEnd, rangeDragOffsetRef)
           newRange == onChange(sel)
           synced == SyncFromProps(sel, range, newRange)
       IN  /\ range' = newRange
           /\ localStart' = synced[1]
           /\ localEnd' = synced[2]
           /\ onChangeCalls' = onChangeCalls + 1
           /\ lastChange' = sel
           /\ renderThrew' = RenderThrows(synced[1], synced[2])
    /\ lastPx' = px
    /\ Tick("move")
    /\ UNCHANGED <<total, dragging, rangeDragOffsetRef, parseVars, chartVars>>
    /\ Rerendered

\* window mousemove while Idle: no listener is registered
MouseMoveIdle(px) ==
    /\ Live
    /\ dragging = "idle"
    /\ lastPx' = px
    /\ Tick("move")
    /\ UNCHANGED <<total, range, localStart, localEnd, dragging, rangeDragOffsetRef,
                   renderThrew, onChangeCalls, lastChange, parseVars, chartVars>>
    /\ UNCHANGED domVars

\* variant: the pointer-up leaves the drag mode as it is
handleMouseUp_KeepsDragging ==
    /\ Live
    /\ dragging # "idle"
    /\ Tick("up")
    /\ UNCHANGED <<total, range, localStart, localEnd, dragging, rangeDragOffsetRef,
                   renderThrew, onChangeCalls, lastChange, lastPx, parseVars, chartVars>>
    /\ UNCHANGED domVars

\* window mouseup while a drag mode is active: setDragging(null)
handleMouseUp ==
    /\ Live
    /\ dragging # "idle"
    /\ dragging' = "idle"
    /\ Tick("up")
    /\ UNCHANGED <<total, range, localStart, localEnd, rangeDragOffsetRef,
                   renderThrew, onChangeCalls, lastChange, lastPx, parseVars, chartVars>>
    /\ Rerendered

\* window mouseup while Idle: no listener is registered
MouseUpIdle ==
    /\ Live
    /\ dragging = "idle"
    /\ Tick("up")
    /\ UNCHANGED <<total, range, localStart, localEnd, dragging, rangeDragOffsetRef,
                   renderThrew, onChangeCalls, lastChange, lastPx, parseVars, chartVars>>
    /\ UNCHANGED domVars

----------------------------------------------------------------------------
(* The brush under the chart view: the state once a dataset of `total`     *)
(* records is loaded and the chart's range effect has run.                 *)

Init ==
    /\ total \in Totals
    /\ range = RangeOnLen(InitialRange(0), total)
    /\ localStart = range.left
    /\ localEnd = range.right
    /\ dragging = "idle"
    /\ rangeDragOffsetRef = 0
    /\ renderThrew = RenderThrows(localStart, localEnd)
    /\ onChangeCalls = 0
    /\ lastChange = <<0, 0>>
    /\ lastEvent = "init"
    /\ lastPx = 0
    /\ nEvents = 0
    /\ BrushRendered
    /\ fileLines = <<>>
    /\ parseCall = <<"none">>
    /\ parseResult = NotParsed
    /\ ChartNotMounted

Next ==
    \/ MouseDownLeft
    \/ MouseDownRight
    \/ \E px \in Pointer : MouseDownBand(px)
    \/ \E px \in Pointer : onMouseMove(px)
    \/ \E px \in Pointer : MouseMoveIdle(px)
    \/ handleMouseUp
    \/ MouseUpIdle

Spec == Init /\ [][Next]_vars

\* the same brush on the embedded fallback dataset (3 timestamps)
FallbackTotal == 3

InitFallbackDataset == Init /\ total = FallbackTotal

SpecFallbackDataset == InitFallbackDataset /\ [][Next]_vars

\* the same brush on the long dataset only
InitLongDataset == Init /\ total = LongTotal

SpecLongDataset == InitLongDataset /\ [][Next]_vars

----------------------------------------------------------------------------
(* The brush under an arbitrary parent: startIndex / endIndex are whatever *)
(* the parent holds, at mount and at any later re-render.                  *)

FarIndex == 10000

PropIndexes == ((0 - 1)..MaxPropsTotal) \cup {FarIndex}

\* useState(startIndex), useState(endIndex), then the first render
InitBrushProps ==
    /\ total \in 1..MaxPropsTotal
    /\ range \in [left : PropIndexes, right : PropIndexes]
    /\ localStart = range.left
    /\ localEnd = range.right
    /\ dragging = "idle"
    /\ rangeDragOffsetRef = 0
    /\ renderThrew = RenderThrows(localStart, localEnd)
    /\ onChangeCalls = 0
    /\ lastChange = <<0, 0>>
    /\ lastEvent = "init"
    /\ lastPx = 0
    /\ nEvents = 0
    /\ BrushRendered
    /\ fileLines = <<>>
    /\ parseCall = <<"none">>
    /\ parseResult = NotParsed
    /\ ChartNotMounted

\* the parent re-renders the brush with new startIndex / endIndex props
ParentSetsRange(s, e) ==
    /\ Live
    /\ range' = [left |-> s, right |-> e]
    /\ LET synced == SyncFromProps(<<localStart, localEnd>>, range, range')
       IN  /\ localStart' = synced[1]
           /\ localEnd' = synced[2]
           /\ renderThrew' = RenderThrows(synced[1], synced[2])
    /\ Tick("props")
    /\ UNCHANGED <<total, dragging, rangeDragOffsetRef, onChangeCalls, lastChange,
                   lastPx, parseVars, chartVars>>
    /\ Rerendered

NextBrushProps ==
    \/ Next
    \/ \E s \in PropIndexes, e \in PropIndexes : ParentSetsRange(s, e)

SpecBrushProps == InitBrushProps /\ [][NextBrushProps]_vars

----------------------------------------------------------------------------
(* The parsers on bounded inputs: every text of up to MaxLines lines drawn *)
(* from InputLines, handed to parseTSV or to parseCSV under a header.      *)

DeviceIds == {"dev-1", "dev-2"}

NameOfDevice(id) ==
    CASE id = "dev-1" -> "ARCADYAN SPEEDHOMEWLAN"
      [] id = "dev-3" -> "WNC DT-EXT03A-WNC"
      [] id = "dev-4" -> "WiFi Extender"
      [] id = "gap" -> "gap"
      [] OTHER -> "Mesh Extender"

LatencyTextOf(id) == IF id = "dev-1" THEN "7.0" ELSE "9.64"

UnparseableTime == "n/a"

TimeTexts ==
    {"2025-08-13 00:00:00", "2025-08-13 00:00", "2025-08-13 01:00:00",
     "2025-08-13 02:00:00", UnparseableTime}

\* full lines, and one line that lacks its latency field
InputLines ==
    {<<ts, id, NameOfDevice(id), LatencyTextOf(id)>> : ts \in TimeTexts, id \in DeviceIds}
        \cup {<<"2025-08-13 00:00:00", "dev-1", "ARCADYAN SPEEDHOMEWLAN">>}

CsvHeaders ==
    {<<"timestamp", "device_id", "device_name", "latency_ms">>,
     <<"timestamp", "device_id", "device_name", "latency_ms", "band">>}

Texts == UNION {[1..n -> InputLines] : n \in 0..MaxLines}

InitParse ==
    /\ fileLines \in Texts
    /\ parseCall = <<"none">>
    /\ parseResult = NotParsed
    /\ ChartNotMounted
    /\ total = 1
    /\ range = RangeOnLen(InitialRange(0), total)
    /\ localStart = range.left
    /\ localEnd = range.right
    /\ dragging = "idle"
    /\ rangeDragOffsetRef = 0
    /\ renderThrew = FALSE
    /\ onChangeCalls = 0
    /\ lastChange = <<0, 0>>
    /\ lastEvent = "init"
    /\ lastPx = 0
    /\ nEvents = 0
    /\ BrushNotRendered

CallParseTSV ==
    /\ parseCall = <<"none">>
    /\ parseCall' = <<"tsv">>
    /\ parseResult' = parseTSV(fileLines)
    /\ UNCHANGED <<fileLines, brushVars, chartVars>>

CallParseCSV(header) ==
    /\ parseCall = <<"none">>
    /\ parseCall' = <<"csv", header>>
    /\ parseResult' = parseCSV(header, fileLines)
    /\ UNCHANGED <<fileLines, brushVars, chartVars>>

NextParse ==
    \/ CallParseTSV
    \/ \E header \in CsvHeaders : CallParseCSV(header)

SpecParse == InitParse /\ [][NextParse]_vars

\* the parser that was called, applied to another text
Reparse(lines) ==
    IF parseCall[1] = "tsv" THEN parseTSV(lines) ELSE parseCSV(parseCall[2], lines)

\* a line whose timestamp field cannot be parsed
BadTimeLine(line) == Len(line) >= 4 /\ ~ValidTime(line[1])

\* the text without the lines whose timestamp cannot be parsed
RECURSIVE WithoutBadTimes(_)
WithoutBadTimes(lines) ==
    IF lines = <<>> THEN <<>>
    ELSE IF BadTimeLine(Head(lines)) THEN WithoutBadTimes(Tail(lines))
    ELSE <<Head(lines)>> \o WithoutBadTimes(Tail(lines))

HasBadTime == \E i \in 1..Len(fileLines) : BadTimeLine(fileLines[i])

C10_BadTimestampSkipped ==
    (parseCall # <<"none">> /\ HasBadTime) =>
        /\ parseResult.status = "ok"
        /\ parseResult = Reparse(WithoutBadTimes(fileLines))

----------------------------------------------------------------------------
(* Properties of the brush *)

Selected == <<localStart, localEnd>>

\* a step that handled a pointer-move in drag mode `mode`
MovedIn(mode) == dragging = mode /\ lastEvent' = "move"

\* C1: in every reachable state of the brush under the chart, for every
\* dataset length >= 1, 0 <= left <= right <= total - 1 (brush and chart range).
C1_SelectionInBounds ==
    /\ 0 <= localStart /\ localStart <= localEnd /\ localEnd <= total - 1
    /\ 0 <= range.left /\ range.left <= range.right /\ range.right <= total - 1

\* C2: after any drag event, the point count right - left + 1 is at least
\* minSelectionPoints and at most maxSelectionPoints.
C2_PointCountWithinLimits ==
    onChangeCalls > 0 =>
        /\ minSelectionPoints <= localEnd - localStart + 1
        /\ localEnd - localStart + 1 <= maxSelectionPoints

\* C3: a brush mounted or re-synchronised with startIndex / endIndex outside
\* [0, total - 1] holds indices clamped into [0, total - 1] and does not throw.
C3_PropsClampedNoThrow ==
    /\ localStart \in 0..(total - 1)
    /\ localEnd \in 0..(total - 1)
    /\ ~renderThrew

\* C4: every pointer-move in DraggingLeft puts the new left index in
\* [max(0, right - maxW), right - minSelectionPoints] and leaves right unchanged.
C4_LeftDragWithinInterval ==
    [][MovedIn("left") =>
        /\ Max(0, localEnd - maxW) <= localStart'
        /\ localStart' <= localEnd - minSelectionPoints
        /\ localEnd' = localEnd]_vars

\* C5: every pointer-move in DraggingRight puts the new right index in
\* [left + minSelectionPoints, min(total - 1, left + maxW)] and leaves left unchanged.
C5_RightDragWithinInterval ==
    [][MovedIn("right") =>
        /\ localStart + minSelectionPoints <= localEnd'
        /\ localEnd' <= Min(total - 1, localStart + maxW)
        /\ localStart' = localStart]_vars

\* C5 as amended: every pointer-move in DraggingRight leaves left unchanged and
\* never puts right above min(total - 1, left + maxW); right is also at least
\* left + minSelectionPoints whenever left + minSelectionPoints <= total - 1, and
\* is exactly min(total - 1, left + maxW) otherwise.
C5_RightDragAmended ==
    [][MovedIn("right") =>
        /\ localStart' = localStart
        /\ localEnd' <= Min(total - 1, localStart + maxW)
        /\ IF localStart + minSelectionPoints <= total - 1
           THEN localStart + minSelectionPoints <= localEnd'
           ELSE localEnd' = Min(total - 1, localStart + maxW)]_vars

\* a right drag pulled back onto the left handle stopped at left + minSelectionPoints,
\* and one on a dataset shorter than minSelectionPoints + 1 stayed at total - 1
C5_Witness ==
    /\ lastEvent = "move" /\ dragging = "right"
    /\ \/ total = LongTotal /\ localEnd = localStart + minSelectionPoints
       \/ total <= minSelectionPoints /\ localEnd = total - 1

\* C6: every pointer-move in DraggingRange keeps right - left, keeps the window
\* inside [0, total - 1], and puts left at (index under pointer) - offset, clamped.
C6_RangeDragKeepsWidth ==
    [][MovedIn("range") =>
        /\ localEnd' - localStart' = localEnd - localStart
        /\ 0 <= localStart' /\ localEnd' <= total - 1
        /\ localStart' = clamp(indexFromPx(lastPx') - rangeDragOffsetRef, 0,
                               total - 1 - (localEnd - localStart))]_vars

\* C7: the drag mode starts Idle, is always one of the four modes, a pointer-down
\* on the left handle / right handle / band enters the matching mode, a
\* pointer-up returns to Idle, and a pointer-move keeps the mode.
C7_DragStateMachine ==
    /\ dragging = "idle"
    /\ [](dragging \in {"idle", "left", "right", "range"})
    /\ [][/\ lastEvent' = "downLeft" => dragging' = "left"
          /\ lastEvent' = "downRight" => dragging' = "right"
          /\ lastEvent' = "downBand" => dragging' = "range"
          /\ lastEvent' = "up" => dragging' = "idle"
          /\ lastEvent' = "move" => dragging' = dragging]_vars

\* a drag was made and released
C7_Witness == lastEvent = "up" /\ dragging = "idle" /\ onChangeCalls > 0

\* C8: a pointer-move in a dragging state makes exactly one onChange call with
\* the computed pair (also when the pair is unchanged), after which the brush's
\* local pair and the chart's range equal it; a pointer-move while Idle makes no
\* call and changes neither.
C8_EveryMoveReported ==
    [][lastEvent' = "move" =>
        IF dragging # "idle"
        THEN /\ onChangeCalls' = onChangeCalls + 1
             /\ Selected' = lastChange'
             /\ range' = [left |-> lastChange'[1], right |-> lastChange'[2]]
             /\ lastChange' = Selection(dragging, lastPx', localStart, localEnd,
                                        rangeDragOffsetRef)
        ELSE /\ onChangeCalls' = onChangeCalls
             /\ UNCHANGED <<localStart, localEnd, range, lastChange>>]_vars

\* the first move of a left drag on the long dataset computed the pair already
\* selected, (0, InitialWindowLast), and was reported all the same
C8_Witness ==
    /\ lastEvent = "move" /\ dragging = "left"
    /\ nEvents = 2 /\ onChangeCalls = 1
    /\ total = LongTotal
    /\ Selected = <<0, InitialWindowLast>> /\ lastChange = Selected
    /\ range = [left |-> 0, right |-> InitialWindowLast]

----------------------------------------------------------------------------
(* Values of row cells as the chart view tests them *)

\* row[key] of an absent key
Undefined == [undefined |-> TRUE]

\* JavaScript null
Null == [null |-> TRUE]

Cell(row, key) == IF key \in DOMAIN row THEN row[key] ELSE Undefined

typeofNumber(v) == "finite" \in DOMAIN v

\* typeof v === "number" && !Number.isNaN(v)
isNumeric(v) == typeofNumber(v) /\ v # NaN

\* typeof v === "number" && Number.isFinite(v)
isFiniteNumber(v) == typeofNumber(v) /\ v.finite

\* a - b <= 0 for numbers other than NaN (Infinity - Infinity is NaN: no order change)
NumLE(a, b) ==
    IF a.finite /\ b.finite THEN a.v <= b.v
    ELSE IF a.finite THEN b.v > 0
    ELSE IF b.finite THEN a.v < 0
    ELSE a.v <= b.v

\* vals.sort((a, b) => a - b)
RECURSIVE InsertNumber(_, _)
InsertNumber(sorted, n) ==
    IF sorted = <<>> THEN <<n>>
    ELSE IF NumLE(sorted[Len(sorted)], n) THEN Append(sorted, n)
    ELSE Append(InsertNumber(SubSeq(sorted, 1, Len(sorted) - 1), n), sorted[Len(sorted)])

RECURSIVE SortNumbers(_)
SortNumbers(vals) ==
    IF vals = <<>> THEN <<>>
    ELSE InsertNumber(SortNumbers(SubSeq(vals, 1, Len(vals) - 1)), vals[Len(vals)])

\* the elements of seq that belong to keep, in order
RECURSIVE Filter(_, _)
Filter(seq, keep) ==
    IF seq = <<>> THEN <<>>
    ELSE IF Head(seq) \in keep THEN <<Head(seq)>> \o Filter(Tail(seq), keep)
    ELSE Filter(Tail(seq), keep)

Contains(seq, e) == \E i \in 1..Len(seq) : seq[i] = e

\* Set.prototype.add on a set kept in insertion order
RECURSIVE AddAll(_, _)
AddAll(seq, more) ==
    IF more = <<>> THEN seq
    ELSE AddAll(IF Contains(seq, Head(more)) THEN seq ELSE Append(seq, Head(more)),
                Tail(more))

----------------------------------------------------------------------------
(* augmentRowsForSparseDevices.  The constants that the code derives from   *)
(* hashStringToUnit (FNV-1a) are tabulated for the ids modelled.            *)

SynthScale == 10000

\* multiplier = 0.9 + hashStringToUnit(id) * 0.4, in units of 10^-8, as the
\* <<high, low>> digits to the base SynthScale
multiplier(id) ==
    CASE id = "dev-1" -> <<9376, 7429>>
      [] id = "dev-2" -> <<9361, 1176>>
      [] id = "dev-3" -> <<9345, 4922>>
      [] id = "dev-4" -> <<9454, 8698>>
      [] id = "__band:dev-1" -> <<11004, 9443>>
      [] id = "__band:dev-2" -> <<11020, 5697>>

\* offset + diurnal + noise of id at row index t (from 0), with
\*   offset = hashStringToUnit(id) * 6 - 3,
\*   diurnal = amp * Math.sin((2 * Math.PI * t) / 24 + phase),
\*   noise = (hashStringToUnit(id + ":" + t) - 0.5) * 2 * noiseMag,
\* in units of 10^-8 hundredths, as <<high, low>> digits to the base SynthScale
shiftAt(id, t) ==
    CASE id = "dev-1" ->
            <<<<0 - 3785666, 1422>>, <<0 - 3417837, 8270>>, <<0 - 2955326, 8401>>,
              <<0 - 2429327, 1939>>, <<0 - 1913558, 3892>>, <<0 - 1369053, 8999>>,
              <<0 - 870789, 9943>>, <<0 - 452396, 1717>>>>[t + 1]
      [] id = "dev-2" ->
            <<<<0 - 1600981, 3290>>, <<0 - 1675464, 8377>>, <<0 - 1811085, 8675>>,
              <<0 - 1999281, 8666>>, <<0 - 2148209, 5342>>, <<0 - 2402361, 6687>>,
              <<0 - 2665399, 7524>>, <<0 - 2920076, 4878>>>>[t + 1]
      [] id = "dev-3" ->
            <<<<0 - 3651200, 3871>>, <<0 - 3310049, 7792>>, <<0 - 2942683, 6642>>,
              <<0 - 2493186, 1123>>, <<0 - 2074559, 8883>>, <<0 - 1634377, 6493>>,
              <<0 - 1285006, 9406>>, <<0 - 969302, 1341>>>>[t + 1]
      [] id = "dev-4" ->
            <<<<0 - 3042868, 308>>, <<0 - 2533337, 2014>>, <<0 - 2044263, 9986>>,
              <<0 - 1672781, 7061>>, <<0 - 1444766, 6614>>, <<0 - 1313065, 5025>>,
              <<0 - 1287211, 2365>>, <<0 - 1432774, 8972>>>>[t + 1]
      [] id = "__band:dev-1" ->
            <<<<0 - 603953, 5332>>, <<0 - 580455, 7410>>, <<0 - 592868, 7289>>,
              <<0 - 641005, 1208>>, <<0 - 722246, 1128>>, <<0 - 831714, 8429>>,
              <<0 - 962606, 223>>, <<0 - 1106664, 4779>>>>[t + 1]
      [] id = "__band:dev-2" ->
            <<<<1546010, 3283>>, <<1681936, 6149>>, <<1748937, 5563>>,
              <<1742841, 8885>>, <<1664459, 7606>>, <<1519527, 5244>>,
              <<1318316, 8117>>, <<1074934, 5394>>>>[t + 1]

\* chart view clamp: Math.max(min, Math.min(max, v))
clampLatency(v, min, max) == Max(min, Min(max, v))

\* Number(clamp(base * multiplier + offset + diurnal + noise, 0, 25).toFixed(2))
SynthValue(id, t, base) ==
    IF ~base.finite THEN (IF base.v > 0 THEN Num(2500) ELSE Num(0))
    ELSE LET m == multiplier(id)
             k == shiftAt(id, t)
             high == base.v * m[1] + k[1]
             low == base.v * m[2] + k[2]
             hundredths == (high + (low \div SynthScale) + (SynthScale \div 2)) \div SynthScale
         IN  Num(clampLatency(hundredths, 0, 2500))

\* Object.keys(r) other than "x" and "gap": the device ids of the readings and
\* their band keys.  Every device id of a row is a key of names, so the order
\* among the keys this adds to the id set is an order among band keys only.
RECURSIVE RowKeys(_, _)
RowKeys(r, nameKeys) ==
    IF nameKeys = <<>> THEN <<>>
    ELSE Filter(<<Head(nameKeys), BAND_META_PREFIX \o Head(nameKeys)>>,
                DOMAIN r \ {"x", "gap"}) \o RowKeys(r, Tail(nameKeys))

RECURSIVE IdsOfRows(_, _, _)
IdsOfRows(ids, rows, nameKeys) ==
    IF rows = <<>> THEN ids
    ELSE IdsOfRows(AddAll(ids, RowKeys(Head(rows), nameKeys)), Tail(rows), nameKeys)

\* Array.from(ids): the keys of names other than "gap", then the row keys
deviceIdsAll(rows, nameKeys) ==
    IdsOfRows(Filter(nameKeys, {nameKeys[i] : i \in 1..Len(nameKeys)} \ {"gap"}),
              rows, nameKeys)

coverageCount(rows, ids) ==
    [id \in {ids[i] : i \in 1..Len(ids)} |->
        Cardinality({i \in 1..Len(rows) : isNumeric(Cell(rows[i], id))})]

\* sort((a, b) => coverageCount[b] - coverageCount[a]): stable, best coverage first
RECURSIVE InsertByCoverage(_, _, _)
InsertByCoverage(sorted, id, coverage) ==
    IF sorted = <<>> THEN <<id>>
    ELSE IF coverage[sorted[Len(sorted)]] >= coverage[id] THEN Append(sorted, id)
    ELSE Append(InsertByCoverage(SubSeq(sorted, 1, Len(sorted) - 1), id, coverage),
                sorted[Len(sorted)])

RECURSIVE SortByCoverage(_, _)
SortByCoverage(ids, coverage) ==
    IF ids = <<>> THEN <<>>
    ELSE InsertByCoverage(SortByCoverage(SubSeq(ids, 1, Len(ids) - 1), coverage),
                          ids[Len(ids)], coverage)

\* .slice(0, 4).filter((id) => coverageCount[id] > 0)
baseIds(ids, coverage) ==
    LET sorted == SortByCoverage(ids, coverage)
    IN  Filter(SubSeq(sorted, 1, Min(4, Len(sorted))),
               {id \in DOMAIN coverage : coverage[id] > 0})

\* the numeric values r holds for the base devices, in their order
RECURSIVE BaseValues(_, _)
BaseValues(r, base) ==
    IF base = <<>> THEN <<>>
    ELSE (IF isNumeric(Cell(r, Head(base))) THEN <<Cell(r, Head(base))>> ELSE <<>>)
            \o BaseValues(r, Tail(base))

\* median of the base devices' values in r: vals[Math.floor(vals.length / 2)], or null
baselineAt(r, base) ==
    LET vals == SortNumbers(BaseValues(r, base))
    IN  IF vals = <<>> THEN Null ELSE vals[(Len(vals) \div 2) + 1]

\* Math.floor(total * 0.6); the double product floors to (6 * total) div 10 for
\* every length below 100000
minCoverage(len) == (6 * len) \div 10

\* variant: a cell that holds a real value is written as well
RECURSIVE FillDevice_OverwritesReal(_, _, _, _)
FillDevice_OverwritesReal(rows, id, i, base) ==
    IF i > Len(rows) THEN rows
    ELSE LET r == rows[i]
             baseline == baselineAt(r, base)
         IN  IF "gap" \in DOMAIN r \/ baseline = Null
             THEN FillDevice_OverwritesReal(rows, id, i + 1, base)
             ELSE FillDevice_OverwritesReal(
                      [rows EXCEPT ![i] = SetKey(r, id, SynthValue(id, i - 1, baseline))],
                      id, i + 1, base)

\* variant: a row with the gap flag is filled like any other
RECURSIVE FillDevice_IgnoresGapFlag(_, _, _, _)
FillDevice_IgnoresGapFlag(rows, id, i, base) ==
    IF i > Len(rows) THEN rows
    ELSE LET r == rows[i]
             baseline == baselineAt(r, base)
         IN  IF isNumeric(Cell(r, id)) \/ baseline = Null
             THEN FillDevice_IgnoresGapFlag(rows, id, i + 1, base)
             ELSE FillDevice_IgnoresGapFlag(
                      [rows EXCEPT ![i] = SetKey(r, id, SynthValue(id, i - 1, baseline))],
                      id, i + 1, base)

\* the inner loop over the rows for one sparse id; rows are written in place,
\* so baselineAt reads what earlier ids of the same pass have written
RECURSIVE FillDevice(_, _, _, _)
FillDevice(rows, id, i, base) ==
    IF i > Len(rows) THEN rows
    ELSE LET r == rows[i]
             baseline == baselineAt(r, base)
         IN  IF \/ "gap" \in DOMAIN r
                \/ isNumeric(Cell(r, id))
                \/ baseline = Null
             THEN FillDevice(rows, id, i + 1, base)
             ELSE FillDevice([rows EXCEPT ![i] = SetKey(r, id, SynthValue(id, i - 1, baseline))],
                             id, i + 1, base)

\* the outer loop over deviceIdsAll from position k
RECURSIVE FillSparse(_, _, _, _, _)
FillSparse(rows, ids, k, coverage, base) ==
    IF k > Len(ids) THEN rows
    ELSE IF coverage[ids[k]] >= minCoverage(Len(rows))
    THEN FillSparse(rows, ids, k + 1, coverage, base)
    ELSE FillSparse(FillDevice(rows, ids[k], 1, base), ids, k + 1, coverage, base)

\* nameKeys is Object.keys(names); the values of names are not read
augmentRowsForSparseDevices(rows, nameKeys) ==
    LET ids == deviceIdsAll(rows, nameKeys)
        coverage == coverageCount(rows, ids)
        base == baseIds(ids, coverage)
    IN  IF rows = <<>> \/ ids = <<>> \/ base = <<>> THEN rows
        ELSE FillSparse(rows, ids, 1, coverage, base)

----------------------------------------------------------------------------
(* Data the chart view derives for display *)

\* Array.prototype.slice(left, right + 1) on an array of length len: the
\* 0-based bounds <<from, to>> of the copied part, negative arguments counted
\* from the end
SliceBounds(len, left, right) ==
    LET rel(k) == IF k < 0 THEN Max(len + k, 0) ELSE Min(k, len)
    IN  <<rel(left), rel(right + 1)>>

slicedData(rows, rng) ==
    LET b == SliceBounds(Len(rows), rng.left, rng.right)
    IN  IF b[1] < b[2] THEN SubSeq(rows, b[1] + 1, b[2]) ELSE <<>>

\* key.startsWith("__") for the keys rows can hold: the band keys
IsMetaKey(key, names) == \E id \in DOMAIN names : key = BAND_META_PREFIX \o id

\* the known device ids (the code returns them sorted; no reader depends on the order)
deviceIds(rows, names) ==
    {id \in DOMAIN names : id # "" /\ id # "gap"} \cup
    {key \in UNION {DOMAIN rows[i] : i \in 1..Len(rows)} :
        key # "x" /\ key # "gap" /\ ~IsMetaKey(key, names)}

\* the numeric values of id over the rows, in row order
RECURSIVE ColumnValues(_, _)
ColumnValues(rows, id) ==
    IF rows = <<>> THEN <<>>
    ELSE (IF isNumeric(Cell(Head(rows), id)) THEN <<Cell(Head(rows), id)>> ELSE <<>>)
            \o ColumnValues(Tail(rows), id)

\* q25 = vals[floor(length * 0.25)], q75 = vals[floor(length * 0.75)] of the sorted
\* values; undefined for a device without values
deviceLatencyQuantiles(rows, ids) ==
    [id \in ids |->
        LET vals == SortNumbers(ColumnValues(rows, id))
        IN  IF vals = <<>> THEN Undefined
            ELSE [q25 |-> vals[(Len(vals) \div 4) + 1],
                  q75 |-> vals[((3 * Len(vals)) \div 4) + 1]]]

hasGapFlag(row) == "gap" \in DOMAIN row

allMissing(row, ids) == ids = {} \/ \A id \in ids : ~isNumeric(Cell(row, id))

\* variant: the gap flag is not read
isOutage_IgnoresGapFlag(row, ids) == allMissing(row, ids)

isOutage(row, ids) == hasGapFlag(row) \/ allMissing(row, ids)

\* the loop of outageRanges from 1-based position i; startIdx is the 1-based
\* start of the open run, 0 when there is none (null)
RECURSIVE OutageLoop(_, _, _, _, _)
OutageLoop(sliced, ids, i, startIdx, ranges) ==
    IF i > Len(sliced)
    THEN IF startIdx = 0 THEN ranges
         ELSE Append(ranges, [x1 |-> sliced[Max(1, startIdx - 1)]["x"],
                              x2 |-> sliced[Len(sliced)]["x"]])
    ELSE IF isOutage(sliced[i], ids) /\ startIdx = 0
    THEN OutageLoop(sliced, ids, i + 1, i, ranges)
    ELSE IF ~isOutage(sliced[i], ids) /\ startIdx # 0
    THEN OutageLoop(sliced, ids, i + 1, 0,
                    Append(ranges, [x1 |-> sliced[Max(1, startIdx - 1)]["x"],
                                    x2 |-> sliced[Min(Len(sliced), i)]["x"]]))
    ELSE OutageLoop(sliced, ids, i + 1, startIdx, ranges)

\* variant: the ranges are taken over all rows, not over the slice handed in
outageRanges_OfAllRows(sliced, ids) == OutageLoop(data, ids, 1, 0, <<>>)

outageRanges(sliced, ids) == OutageLoop(sliced, ids, 1, 0, <<>>)

BandCodes == {"24", "5", "5m"}

\* the template `${id}__band_${code}`
BandKey(id, code) == id \o "__band_" \o code

\* String(n) of a finite number n >= 0 with at most two decimals
NumberText(n) ==
    LET whole == n.v \div 100
        cents == n.v % 100
    IN  IF cents = 0 THEN ToString(whole)
        ELSE IF cents % 10 = 0 THEN ToString(whole) \o "." \o ToString(cents \div 10)
        ELSE ToString(whole) \o "." \o (IF cents < 10 THEN "0" ELSE "") \o ToString(cents)

\* /\b(mesh|ext|extender|backhaul)\b/i.test(name) for the display names modelled:
\* one of the four words between non-word characters or the ends of the name
meshWordTest(name) == name \in {"Mesh Extender", "WiFi Extender"}

\* !b
Falsy(b) ==
    \/ b = Undefined
    \/ b = Null
    \/ b = Str("")
    \/ typeofNumber(b) /\ (b = NaN \/ b = Num(0))

\* variant: the latency heuristic runs before the name heuristic
bandCode_LatencyFirst(row, id, names, quantiles) ==
    LET v == Cell(row, id)
        explicit == Cell(row, BAND_META_PREFIX \o id)
        name == IF id \in DOMAIN names THEN names[id] ELSE ""
        q == quantiles[id]
        byLatency == IF Falsy(explicit) /\ q # Undefined
                     THEN IF NumLE(v, q.q25) THEN Str("5")
                          ELSE IF NumLE(q.q75, v) THEN Str("24")
                          ELSE explicit
                     ELSE explicit
        byName == IF Falsy(byLatency) /\ meshWordTest(name) THEN Str("5m") ELSE byLatency
    IN  IF byName = Undefined \/ byName = Null THEN Str("24") ELSE byName

\* variant: the latency heuristic tests the 75th percentile before the 25th
bandCode_UpperQuartileFirst(row, id, names, quantiles) ==
    LET v == Cell(row, id)
        explicit == Cell(row, BAND_META_PREFIX \o id)
        name == IF id \in DOMAIN names THEN names[id] ELSE ""
        byName == IF Falsy(explicit) /\ meshWordTest(name) THEN Str("5m") ELSE explicit
        q == quantiles[id]
        byLatency == IF Falsy(byName) /\ q # Undefined
                     THEN IF NumLE(q.q75, v) THEN Str("24")
                          ELSE IF NumLE(v, q.q25) THEN Str("5")
                          ELSE byName
                     ELSE byName
    IN  IF byLatency = Undefined \/ byLatency = Null THEN Str("24") ELSE byLatency

\* the value of code for a row whose cell v of id is numeric: steps 1) to 4)
bandCode(row, id, names, quantiles) ==
    LET v == Cell(row, id)
        explicit == Cell(row, BAND_META_PREFIX \o id)
        name == IF id \in DOMAIN names THEN names[id] ELSE ""
        byName == IF Falsy(explicit) /\ meshWordTest(name) THEN Str("5m") ELSE explicit
        q == quantiles[id]
        byLatency == IF Falsy(byName) /\ q # Undefined
                     THEN IF NumLE(v, q.q25) THEN Str("5")
                          ELSE IF NumLE(q.q75, v) THEN Str("24")
                          ELSE byName
                     ELSE byName
    IN  IF byLatency = Undefined \/ byLatency = Null THEN Str("24") ELSE byLatency

\* the text ${code} puts into the key
CodeText(code) == IF typeofNumber(code) THEN NumberText(code) ELSE code.text

\* one row of slicedDataBanded: the row's keys, then for every known id the key
\* of its code set to v and the keys of the codes x !== code set to null (a code
\* that is not one of the three strings leaves all three among the others)
BandedRow(row, ids, names, quantiles) ==
    LET code(id) == bandCode(row, id, names, quantiles)
        numeric == {id \in ids : isNumeric(Cell(row, id))}
        own(id) == BandKey(id, CodeText(code(id)))
        nulled(id) == {BandKey(id, c) : c \in BandCodes \ (IF typeofNumber(code(id)) THEN {}
                                                           ELSE {code(id).text})}
        nullKeys == UNION {{BandKey(id, c) : c \in BandCodes} : id \in ids \ numeric}
                        \cup UNION {nulled(id) : id \in numeric}
        ownKeys == {own(id) : id \in numeric} \ nullKeys
    IN  [k \in nullKeys |-> Null] @@
        [k \in ownKeys |-> Cell(row, CHOOSE id \in numeric : own(id) = k)] @@
        row

slicedDataBanded(sliced, ids, names, quantiles) ==
    [i \in 1..Len(sliced) |-> BandedRow(sliced[i], ids, names, quantiles)]

\* ExternalBrush previewValues without an overviewMetric: the keys of a row that
\* enter the average
OverviewKeys(row) == {k \in DOMAIN row \ {"x"} : isFiniteNumber(row[k])}

----------------------------------------------------------------------------
(* The load effect of the chart view *)

\* the lines of fallbackTSV
fallbackTSV ==
    <<<<"2025-08-13 00:00:00", "dev-1", "ARCADYAN SPEEDHOMEWLAN", "7.0">>,
      <<"2025-08-13 00:00:00", "dev-2", "WNC DT-EXT03A-WNC", "9.64">>,
      <<"2025-08-13 00:00:00", "dev-3", "WNC DT-EXT01A-WNC (A)", "14.14">>,
      <<"2025-08-13 00:00:00", "dev-4", "WNC DT-EXT01A-WNC (B)", "14.71">>,
      <<"2025-08-13 00:00:00", "dev-5", "WNC DT-EXT01A-WNC (C)", "21.58">>,
      <<"2025-08-13 01:00:00", "dev-1", "ARCADYAN SPEEDHOMEWLAN", "7.66">>,
      <<"2025-08-13 01:00:00", "dev-2", "WNC DT-EXT03A-WNC", "12.17">>,
      <<"2025-08-13 01:00:00", "dev-3", "WNC DT-EXT01A-WNC (A)", "15.26">>,
      <<"2025-08-13 01:00:00", "dev-4", "WNC DT-EXT01A-WNC (B)", "17.4">>,
      <<"2025-08-13 01:00:00", "dev-5", "WNC DT-EXT01A-WNC (C)", "25.0">>,
      <<"2025-08-13 02:00:00", "dev-1", "ARCADYAN SPEEDHOMEWLAN", "4.07">>,
      <<"2025-08-13 02:00:00", "dev-2", "WNC DT-EXT03A-WNC", "10.72">>,
      <<"2025-08-13 02:00:00", "dev-3", "WNC DT-EXT01A-WNC (A)", "15.80">>,
      <<"2025-08-13 02:00:00", "dev-4", "WNC DT-EXT01A-WNC (B)", "18.22">>,
      <<"2025-08-13 02:00:00", "dev-5", "WNC DT-EXT01A-WNC (C)", "24.68">>>>

\* the parser load() calls on what it fetched: call is <<"tsv">> or <<"csv", header>>
Parse(call, lines) ==
    IF call[1] = "tsv" THEN parseTSV(lines) ELSE parseCSV(call[2], lines)

\* the renders that follow the state updates of load(): with an error the view
\* shows the message; otherwise the brush mounts on the new data with the range
\* held so far (its first render reads data[0]), the effect on [len] then sets
\* the range and the brush takes it over
ShowData ==
    /\ total' = Len(data')
    /\ range' = RangeOnLen(range, Len(data'))
    /\ localStart' = range'.left
    /\ localEnd' = range'.right
    /\ renderThrew' = (error' = "" /\ Len(data') = 0)
    /\ IF error' # "" \/ Len(data') = 0 THEN SetDom(FALSE, Teardown(Dom))
       ELSE IF brushMounted THEN SetDom(TRUE, DragEffectRuns(Dom, dragging))
       ELSE SetDom(TRUE, Mounting(TRUE))
    /\ UNCHANGED <<dragging, rangeDragOffsetRef, onChangeCalls, lastChange, lastEvent,
                   lastPx, nEvents>>

\* the catch block of load(), the view still mounted: the fallback is parsed and
\* shown without augmentation; message is e.message of what was caught
Catch(message) ==
    LET fallback == parseTSV(fallbackTSV)
    IN  /\ IF fallback.status = "ok"
           THEN /\ deviceNames' = fallback.names
                /\ data' = fallback.rows
                /\ error' = ""
           ELSE /\ UNCHANGED <<deviceNames, data>>
                /\ error' = message
        /\ loading' = FALSE
        /\ UNCHANGED filterVars
        /\ ShowData

\* load() from `if (cancelled) return` on, the view still mounted and a text
\* fetched: call is <<"tsv">> or <<"csv", header>>, the parser the text goes to
Commit(call, lines) ==
    LET parsed == Parse(call, lines)
    IN  /\ fileLines' = lines
        /\ parseCall' = call
        /\ parseResult' = parsed
        /\ IF parsed.status = "ok"
           THEN /\ deviceNames' = parsed.names
                /\ data' = augmentRowsForSparseDevices(parsed.rows, parsed.nameKeys)
                /\ UNCHANGED <<error, filterVars>>
                /\ loading' = FALSE
                /\ ShowData
           ELSE Catch("Invalid time value")

----------------------------------------------------------------------------
(* The chart view on bounded datasets: a file of up to n hourly records, each *)
(* record one of a set of kinds, a kind giving the latency text of each      *)
(* device ("" for a device without a line at that hour).                     *)

HourTexts ==
    <<"2025-08-13 00:00:00", "2025-08-13 01:00:00", "2025-08-13 02:00:00",
      "2025-08-13 03:00:00", "2025-08-13 04:00:00", "2025-08-13 05:00:00",
      "2025-08-13 06:00:00", "2025-08-13 07:00:00">>

\* the band column of the device's lines, read by parseCSV only
BandTextOf(id) == IF id = "dev-1" THEN "2.4GHz" ELSE ""

ChartCsvHeader == <<"timestamp", "device_id", "device_name", "latency_ms", "band">>

ChartCalls == {<<"tsv">>, <<"csv", ChartCsvHeader>>}

\* the lines of hour h for the devices of order that have a latency text in kind
RECURSIVE HourLines(_, _, _)
HourLines(h, kind, order) ==
    IF order = <<>> THEN <<>>
    ELSE (IF kind[Head(order)] = "" THEN <<>>
          ELSE <<<<HourTexts[h], Head(order), NameOfDevice(Head(order)),
                   kind[Head(order)], BandTextOf(Head(order))>>>>)
            \o HourLines(h, kind, Tail(order))

RECURSIVE GridLines(_, _, _)
GridLines(grid, h, order) ==
    IF h > Len(grid) THEN <<>>
    ELSE HourLines(h, grid[h], order) \o GridLines(grid, h + 1, order)

\* the view as constructed: loading, the brush not yet rendered
ViewConstructed ==
    /\ parseCall = <<"none">>
    /\ parseResult = NotParsed
    /\ data = <<>>
    /\ deviceNames = <<>>
    /\ loading = TRUE
    /\ error = ""
    /\ selectedClients = {}
    /\ isolatedDevice = ""
    /\ loads = <<>>
    /\ total = 0
    /\ range = InitialRange(0)
    /\ localStart = range.left
    /\ localEnd = range.right
    /\ dragging = "idle"
    /\ rangeDragOffsetRef = 0
    /\ renderThrew = FALSE
    /\ onChangeCalls = 0
    /\ lastChange = <<0, 0>>
    /\ lastEvent = "init"
    /\ lastPx = 0
    /\ nEvents = 0
    /\ BrushNotRendered

\* the view as constructed, about to load a file drawn from the kinds
InitChart(kinds, order, maxRecords) ==
    /\ \E n \in 0..maxRecords : \E grid \in [1..n -> kinds] :
            fileLines = GridLines(grid, 1, order)
    /\ responses = <<>>
    /\ ViewConstructed

\* both fetches settled with the view mounted: the file arrives as TSV or as CSV
LoadResolves(call) ==
    /\ loading
    /\ Commit(call, fileLines)
    /\ UNCHANGED loadVars

\* selections followed after a load
MaxSelections == 1

\* the brush reports a selection inside the data: onChange -> setRange
SelectRange(s, e) ==
    /\ ~loading /\ ~renderThrew
    /\ onChangeCalls < MaxSelections
    /\ 0 <= s /\ s <= e /\ e <= total - 1
    /\ <<s, e>> # <<range.left, range.right>>
    /\ range' = onChange(<<s, e>>)
    /\ localStart' = s
    /\ localEnd' = e
    /\ onChangeCalls' = onChangeCalls + 1
    /\ lastChange' = <<s, e>>
    /\ UNCHANGED <<total, dragging, rangeDragOffsetRef, renderThrew, lastEvent, lastPx,
                   nEvents, parseVars, chartVars>>
    /\ Rerendered

MaxRecords == 4

\* records of the synthesizer runs: dev-1 and dev-2, dev-2 at times not finite
SynthKinds ==
    {("dev-1" :> a) @@ ("dev-2" :> b) : a \in {"", "7.0"}, b \in {"", "9.64", "Infinity"}}

InitSynth == InitChart(SynthKinds, <<"dev-1", "dev-2">>, MaxRecords)

NextSynth == \E call \in ChartCalls : LoadResolves(call)

SpecSynth == InitSynth /\ [][NextSynth]_vars

----------------------------------------------------------------------------
(* Properties of the loaded data and of what is derived from it *)

\* the rows on display and what the view derives from them
Known == deviceIds(data, deviceNames)
Sliced == slicedData(data, range)
Quantiles == deviceLatencyQuantiles(data, Known)
Banded == slicedDataBanded(Sliced, Known, deviceNames, Quantiles)

\* a fetched file was parsed and is on display
Loaded == ~loading /\ parseResult.status = "ok"

\* C11: a latency cell whose number is not finite (NaN, Infinity, -Infinity) is
\* no data in every stage: it is not counted in the synthesizer's coverage and
\* is no baseline value, its device is missing for outage detection, it gives no
\* band sub-series value, and it does not enter the brush overview.
C11_NonFiniteIsNoData ==
    Loaded =>
        LET rows == parseResult.rows
            ids == deviceIdsAll(rows, parseResult.nameKeys)
            coverage == coverageCount(rows, ids)
            base == baseIds(ids, coverage)
        IN  /\ \A id \in DOMAIN coverage :
                    coverage[id] =
                        Cardinality({i \in 1..Len(rows) : isFiniteNumber(Cell(rows[i], id))})
            /\ \A i \in 1..Len(rows) :
                    LET vals == BaseValues(rows[i], base)
                    IN  \A j \in 1..Len(vals) : vals[j].finite
            /\ \A i \in 1..Len(Sliced) :
                    (\A id \in Known : ~isFiniteNumber(Cell(Sliced[i], id)))
                        => isOutage(Sliced[i], Known)
            /\ \A i \in 1..Len(Sliced) : \A id \in Known :
                    ~isFiniteNumber(Cell(Sliced[i], id))
                        => \A c \in BandCodes : Banded[i][BandKey(id, c)] = Null
            /\ \A i \in 1..Len(data) : \A k \in OverviewKeys(data[i]) :
                    isFiniteNumber(data[i][k])

----------------------------------------------------------------------------
(* The load effect as a process: the effect of a mount starts load(), the   *)
(* cleanup of an unmount sets its cancelled flag, and each fetch settles    *)
(* later.  React.StrictMode (main.tsx) runs effect, cleanup, effect on one  *)
(* instance, whose state is kept.                                          *)

MaxLoads == 2

\* bodies a server may answer with: empty, a header without records, two
\* records, a record whose timestamp cannot be parsed
NoText == [empty |-> TRUE, lines |-> <<>>]

TwoRecords ==
    <<<<"2025-08-13 00:00:00", "dev-1", "ARCADYAN SPEEDHOMEWLAN", "7.0", "2.4GHz">>,
      <<"2025-08-13 01:00:00", "dev-1", "ARCADYAN SPEEDHOMEWLAN", "7.0", "2.4GHz">>>>

BadRecord == <<<<"n/a", "dev-1", "ARCADYAN SPEEDHOMEWLAN", "7.0", "2.4GHz">>>>

\* lines are the lines after the header line of a CSV body, all lines of a TSV body
CsvBodies == {NoText} \cup {[empty |-> FALSE, lines |-> l] : l \in {<<>>, TwoRecords, BadRecord}}

TsvBodies == {NoText} \cup {[empty |-> FALSE, lines |-> l] : l \in {TwoRecords, BadRecord}}

\* fetch rejects (network error), or resolves with res.ok false or true
Answers(bodies) ==
    {[kind |-> "rejected", text |-> NoText], [kind |-> "not ok", text |-> NoText]}
        \cup {[kind |-> "ok", text |-> b] : b \in bodies}


InitLoad ==
    /\ fileLines = <<>>
    /\ responses \in [csv : Answers(CsvBodies), tsv : Answers(TsvBodies)]
    /\ ViewConstructed

\* the view is mounted and its effect has not been cleaned up
Mounted == loads # <<>> /\ ~loads[Len(loads)].cancelled

\* useEffect(() => { let cancelled = false; ... load(); ... }, []): load() runs
\* up to its first await, the fetch of /latency.csv
MountEffect ==
    /\ ~Mounted
    /\ Len(loads) < MaxLoads
    /\ loads' = Append(loads, [pc |-> "csv", cancelled |-> FALSE])
    /\ UNCHANGED <<responses, viewVars, parseVars, brushVars>>

\* the cleanup of the effect: cancelled = true
CleanupEffect ==
    /\ Mounted
    /\ loads' = [loads EXCEPT ![Len(loads)].cancelled = TRUE]
    /\ UNCHANGED <<responses, viewVars, parseVars, brushVars>>

\* load k returns without a state update
Returns(k) ==
    /\ loads' = [loads EXCEPT ![k].pc = "done"]
    /\ UNCHANGED <<responses, viewVars, parseVars, brushVars>>

\* variant: the cancelled flag is not read before the commit
CsvSettles_IgnoresCancelled(k) ==
    /\ k \in 1..Len(loads)
    /\ loads[k].pc = "csv"
    /\ LET res == responses.csv
       IN  IF res.kind = "ok" /\ ~res.text.empty
           THEN /\ Commit(<<"csv", ChartCsvHeader>>, res.text.lines)
                /\ loads' = [loads EXCEPT ![k].pc = "done"]
                /\ UNCHANGED responses
           ELSE /\ loads' = [loads EXCEPT ![k].pc = "tsv"]
                /\ UNCHANGED <<responses, viewVars, parseVars, brushVars>>

\* the CSV fetch of load k settles (with csvRes.text() when ok): a non-empty
\* body goes on to `if (cancelled) return` and the commit, anything else to the
\* fetch of /latency.tsv
CsvSettles(k) ==
    /\ k \in 1..Len(loads)
    /\ loads[k].pc = "csv"
    /\ LET res == responses.csv
       IN  IF res.kind = "ok" /\ ~res.text.empty
           THEN IF loads[k].cancelled THEN Returns(k)
                ELSE /\ Commit(<<"csv", ChartCsvHeader>>, res.text.lines)
                     /\ loads' = [loads EXCEPT ![k].pc = "done"]
                     /\ UNCHANGED responses
           ELSE /\ loads' = [loads EXCEPT ![k].pc = "tsv"]
                /\ UNCHANGED <<responses, viewVars, parseVars, brushVars>>

\* the TSV fetch of load k settles: a rejection or a response not ok is thrown
\* into the catch block, a body goes on to `if (cancelled) return` and the commit
TsvSettles(k) ==
    /\ k \in 1..Len(loads)
    /\ loads[k].pc = "tsv"
    /\ LET res == responses.tsv
       IN  IF loads[k].cancelled THEN Returns(k)
           ELSE /\ IF res.kind = "ok" THEN Commit(<<"tsv">>, res.text.lines)
                   ELSE /\ Catch("Failed to fetch latency.csv or latency.tsv")
                        /\ UNCHANGED parseVars
                /\ loads' = [loads EXCEPT ![k].pc = "done"]
                /\ UNCHANGED responses

NextLoad ==
    \/ MountEffect
    \/ CleanupEffect
    \/ \E k \in 1..MaxLoads : CsvSettles(k)
    \/ \E k \in 1..MaxLoads : TsvSettles(k)

SpecLoad == InitLoad /\ [][NextLoad]_vars

\* load k ran to its end with the view mounted
Completed(k) == k \in 1..Len(loads) /\ loads[k].pc = "done" /\ ~loads[k].cancelled

\* C12: when neither file can be fetched and the view is still mounted, the load
\* ends with the fallback on display (3 records, 5 devices), not loading, no
\* error; an error is set only when the fallback fails to parse; and after a
\* completed load the view never has both no data and no error.
C12_FallbackOrError ==
    /\ \A k \in 1..Len(loads) :
            (Completed(k) /\ responses.csv.kind # "ok" /\ responses.tsv.kind # "ok") =>
                /\ data = parseTSV(fallbackTSV).rows
                /\ Len(data) = 3
                /\ Cardinality(Known) = 5
                /\ ~loading
                /\ error = ""
    /\ error # "" => parseTSV(fallbackTSV).status # "ok"
    /\ (\E k \in 1..Len(loads) : Completed(k)) => ~(data = <<>> /\ error = "")

\* load k takes a step
Steps(k) == k \in 1..Len(loads) /\ Len(loads') = Len(loads) /\ loads'[k].pc # loads[k].pc

\* C13: a load whose view was unmounted before its fetch settles applies nothing:
\* data, deviceNames, loading and error stay as they are; with two loads in
\* flight only the load of the mounted view writes the view's state.
C13_CancelledLoadWritesNothing ==
    [][/\ \A k \in 1..Len(loads) :
                (Steps(k) /\ loads[k].cancelled) => UNCHANGED viewVars
       /\ viewVars' # viewVars => (Mounted /\ Steps(Len(loads)))]_vars

\* the first load was cancelled and has returned, the second is in flight, and
\* the view still shows what it showed at construction
C13_Witness ==
    /\ Len(loads) = 2
    /\ loads[1].cancelled /\ loads[1].pc = "done"
    /\ ~loads[2].cancelled /\ loads[2].pc # "done"
    /\ responses.csv.kind = "ok" /\ responses.csv.text.lines = TwoRecords
    /\ loading /\ data = <<>>

\* the rows the parser returned, before synthesis
Parsed == parseResult.rows

\* C15: every cell that holds a real numeric value before synthesis holds the
\* same value after it; synthesis writes only cells that had no numeric value.
C15_RealValuesKept ==
    Loaded =>
        /\ Len(data) = Len(Parsed)
        /\ \A i \in 1..Len(Parsed) : \A key \in DOMAIN Parsed[i] \ {"x"} :
                isNumeric(Parsed[i][key]) => Cell(data[i], key) = Parsed[i][key]
        /\ \A i \in 1..Len(data) : \A key \in DOMAIN data[i] \ {"x"} :
                data[i][key] # Cell(Parsed[i], key) => ~isNumeric(Cell(Parsed[i], key))

\* a device with a real value in one record was given a synthesized value in
\* another record
C15_Witness ==
    /\ Loaded
    /\ \E id \in Known : \E i, j \in 1..Len(data) :
            /\ isNumeric(Cell(Parsed[i], id))
            /\ ~isNumeric(Cell(Parsed[j], id))
            /\ isNumeric(Cell(data[j], id))

\* the ids, coverage and base devices the synthesizer computes from the parsed rows
ParsedIds == deviceIdsAll(Parsed, parseResult.nameKeys)
ParsedCoverage == coverageCount(Parsed, ParsedIds)
ParsedBase == baseIds(ParsedIds, ParsedCoverage)

\* C16: a device is sparse exactly when the count of its real values is below
\* 60% of the record count: every such device has its missing cells filled
\* where a baseline exists and the record has no gap flag, and no device at or
\* above 60% is given a synthesized value.
C16_SparseBelowSixtyPercent ==
    Loaded =>
        \A id \in Known :
            IF 10 * ParsedCoverage[id] < 6 * Len(Parsed)
            THEN \A i \in 1..Len(Parsed) :
                    (/\ ~isNumeric(Cell(Parsed[i], id))
                     /\ ~hasGapFlag(Parsed[i])
                     /\ baselineAt(Parsed[i], ParsedBase) # Null)
                        => isNumeric(Cell(data[i], id))
            ELSE \A i \in 1..Len(Parsed) : Cell(data[i], id) = Cell(Parsed[i], id)

\* the band tag the parser captured for id in record i, Undefined when none
Tag(i, id) == Cell(Parsed[i], BAND_META_PREFIX \o id)

\* C17: for every record and device with a numeric value and a band tag
\* captured by the parser, the band the classifier assigns on the loaded data
\* (after parsing and synthesis) is that tag.
C17_TagWins ==
    Loaded =>
        \A i \in 1..Len(data) : \A id \in Known :
            (isNumeric(Cell(data[i], id)) /\ Tag(i, id) # Undefined) =>
                bandCode(data[i], id, deviceNames, Quantiles) = Tag(i, id)

\* C18: in the band-split rows of the visible slice, for every record and known
\* device: with a numeric value exactly one of the three band keys carries the
\* value and the other two are null; without one all three are null.
C18_OneBandKeyCarriesValue ==
    Loaded =>
        \A i \in 1..Len(Sliced) : \A id \in Known :
            LET v == Cell(Sliced[i], id)
                carrying == {c \in BandCodes : Banded[i][BandKey(id, c)] = v}
            IN  IF isNumeric(v)
                THEN /\ Cardinality(carrying) = 1
                     /\ \A c \in BandCodes \ carrying : Banded[i][BandKey(id, c)] = Null
                ELSE \A c \in BandCodes : Banded[i][BandKey(id, c)] = Null

----------------------------------------------------------------------------
(* The classifier on devices without band tags: dev-3, whose name holds EXT  *)
(* inside the word EXT03A, and dev-4, whose name holds the word Extender.   *)

BandKinds ==
    {("dev-3" :> a) @@ ("dev-4" :> b) : a \in {"", "7.0"}, b \in {"", "7.0", "9.64"}}

InitBands == InitChart(BandKinds, <<"dev-3", "dev-4">>, MaxRecords)

SpecBands == InitBands /\ [][NextSynth]_vars

\* the display name of id as the classifier reads it
DisplayName(id) == IF id \in DOMAIN deviceNames THEN deviceNames[id] ELSE ""

\* the name contains mesh, ext, extender or backhaul, whatever the case of its
\* letters and whatever stands around them
ContainsMeshText(name) ==
    name \in {"Mesh Extender", "WiFi Extender", "WNC DT-EXT03A-WNC",
              "WNC DT-EXT01A-WNC (A)", "WNC DT-EXT01A-WNC (B)", "WNC DT-EXT01A-WNC (C)"}

\* record i of the slice has a numeric value of id and no band tag
Untagged(i, id) ==
    /\ isNumeric(Cell(Sliced[i], id))
    /\ Falsy(Cell(Sliced[i], BAND_META_PREFIX \o id))

\* C19 as stated: an untagged value of a device whose display name contains
\* mesh, ext, extender or backhaul is classified Band-C, whatever its quantile
\* position.
C19_NameContainsMeshText ==
    Loaded =>
        \A i \in 1..Len(Sliced) : \A id \in Known :
            (Untagged(i, id) /\ ContainsMeshText(DisplayName(id))) =>
                /\ bandCode(Sliced[i], id, deviceNames, Quantiles) = Str("5m")
                /\ Banded[i][BandKey(id, "5m")] = Sliced[i][id]

\* C19 amended: an untagged value of a device whose display name holds mesh,
\* ext, extender or backhaul as a whole word is classified Band-C, whatever its
\* quantile position.
C19_NameHasMeshWord ==
    Loaded =>
        \A i \in 1..Len(Sliced) : \A id \in Known :
            (Untagged(i, id) /\ meshWordTest(DisplayName(id))) =>
                /\ bandCode(Sliced[i], id, deviceNames, Quantiles) = Str("5m")
                /\ Banded[i][BandKey(id, "5m")] = Sliced[i][id]

\* dev-4 (WiFi Extender) has two different values; the lower one, at its 25th
\* percentile, is in the Band-C sub-series and the higher one, at its 75th, too
C19_Witness ==
    /\ Loaded
    /\ \E i, j \in 1..Len(Sliced) :
            /\ Untagged(i, "dev-4") /\ Untagged(j, "dev-4")
            /\ Sliced[i]["dev-4"] = Num(700) /\ Sliced[j]["dev-4"] = Num(964)
            /\ Quantiles["dev-4"].q25 = Num(700) /\ Quantiles["dev-4"].q75 = Num(964)
            /\ Banded[i][BandKey("dev-4", "5m")] = Num(700)
            /\ Banded[j][BandKey("dev-4", "5m")] = Num(964)

----------------------------------------------------------------------------
(* Outage detection on slices: records with both devices, with a latency   *)
(* that is no number, with the gap flag beside a reading, with one device, *)
(* and with the gap flag alone.                                            *)

MaxOutageRecords == 4

OutageKinds ==
    {("dev-1" :> "7.0") @@ ("dev-2" :> "9.64") @@ ("gap" :> ""),
     ("dev-1" :> "abc") @@ ("dev-2" :> "") @@ ("gap" :> ""),
     ("dev-1" :> "7.0") @@ ("dev-2" :> "") @@ ("gap" :> "7.0"),
     ("dev-1" :> "") @@ ("dev-2" :> "9.64") @@ ("gap" :> ""),
     ("dev-1" :> "") @@ ("dev-2" :> "") @@ ("gap" :> "7.0")}

InitOutage == InitChart(OutageKinds, <<"dev-1", "dev-2", "gap">>, MaxOutageRecords)

NextOutage ==
    \/ LoadResolves(<<"tsv">>)
    \/ \E s, e \in 0..MaxOutageRecords : SelectRange(s, e)

SpecOutage == InitOutage /\ [][NextOutage]_vars

\* record i of the slice is an outage point: it has the gap flag, or no known
\* device has a numeric value in it
OutagePoint(i) ==
    \/ "gap" \in DOMAIN Sliced[i]
    \/ ~\E id \in Known : isNumeric(Cell(Sliced[i], id))

\* the maximal runs <<first, last>> of consecutive outage points of the slice
OutageRuns ==
    {run \in (1..Len(Sliced)) \X (1..Len(Sliced)) :
        /\ run[1] <= run[2]
        /\ \A i \in run[1]..run[2] : OutagePoint(i)
        /\ run[1] = 1 \/ ~OutagePoint(run[1] - 1)
        /\ run[2] = Len(Sliced) \/ ~OutagePoint(run[2] + 1)}

\* C20: the outage ranges of the visible slice correspond one to one, in order,
\* to the maximal runs of consecutive outage points (gap flag, or no known
\* device with a numeric value); each range starts one record before its run
\* and ends one record after it, and at the run's own end where the run touches
\* the first or the last record of the slice.
C20_RangesAreOutageRuns ==
    Loaded =>
        LET ranges == outageRanges(Sliced, Known)
        IN  /\ Len(ranges) = Cardinality(OutageRuns)
            /\ \A run \in OutageRuns :
                    LET k == Cardinality({r \in OutageRuns : r[1] <= run[1]})
                    IN  /\ ranges[k].x1 = Sliced[Max(1, run[1] - 1)]["x"]
                        /\ ranges[k].x2 = Sliced[Min(Len(Sliced), run[2] + 1)]["x"]

\* a slice that leaves out the first record: a record with readings and the gap
\* flag between two records with readings, and one range from the first record
\* of the slice to its last
C20_Witness ==
    /\ Loaded
    /\ Len(data) = 4 /\ range = [left |-> 1, right |-> 3]
    /\ ~OutagePoint(1) /\ OutagePoint(2) /\ ~OutagePoint(3)
    /\ isNumeric(Cell(Sliced[2], "dev-1"))
    /\ outageRanges(Sliced, Known) = <<[x1 |-> Sliced[1]["x"], x2 |-> Sliced[3]["x"]]>>

----------------------------------------------------------------------------
(* The brush on a loaded dataset: the file is fetched and shown, then the   *)
(* handles and the band are pressed and dragged.  Records hold a reading of *)
(* dev-1 or a latency that is no number.                                    *)

MaxBrushedRecords == 5
MaxDragEvents == 2

BrushedKinds == {("dev-1" :> "7.0"), ("dev-1" :> "abc")}

InitBrushedChart == InitChart(BrushedKinds, <<"dev-1">>, MaxBrushedRecords)

NextBrushedChart ==
    \/ LoadResolves(<<"tsv">>)
    \/ ~loading /\ nEvents < MaxDragEvents /\ Next

SpecBrushedChart == InitBrushedChart /\ [][NextBrushedChart]_vars

\* the 1-based positions of the slice whose record has timestamp x
PositionsOf(x) == {i \in 1..Len(Sliced) : Sliced[i]["x"] = x}

----------------------------------------------------------------------------
(* The latency heuristic: dev-3, no band tag and no name match, with up to  *)
(* four different latencies, one of them Infinity; dev-1 beside it or alone *)
(* (dev-3 then sparse and filled by the synthesizer).                       *)

QuantileKinds ==
    {("dev-1" :> "") @@ ("dev-3" :> "7.0"),
     ("dev-1" :> "") @@ ("dev-3" :> "9.64"),
     ("dev-1" :> "") @@ ("dev-3" :> "12.17"),
     ("dev-1" :> "") @@ ("dev-3" :> "Infinity"),
     ("dev-1" :> "7.0") @@ ("dev-3" :> ""),
     ("dev-1" :> "7.0") @@ ("dev-3" :> "9.64")}

InitQuantiles == InitChart(QuantileKinds, <<"dev-1", "dev-3">>, MaxRecords)

SpecQuantiles == InitQuantiles /\ [][NextSynth]_vars

\* the records of the full dataset with a numeric value of id
Valued(id) == {j \in 1..Len(data) : isNumeric(Cell(data[j], id))}

\* the value of id at position floor(n * num / 4) of its n numeric values in
\* ascending order: at most that many values lie below it, more than that many
\* do not lie above it
Quartile(id, num) ==
    LET at == (Cardinality(Valued(id)) * num) \div 4
        v(j) == data[j][id]
        j == CHOOSE j \in Valued(id) :
                /\ Cardinality({m \in Valued(id) : ~NumLE(v(j), v(m))}) <= at
                /\ Cardinality({m \in Valued(id) : NumLE(v(m), v(j))}) > at
    IN  v(j)

\* record i of the slice has an untagged value of id, and the name of id has
\* none of the four words
ByLatency(i, id) == Untagged(i, id) /\ ~meshWordTest(DisplayName(id))

----------------------------------------------------------------------------
(* Synthesis and outages *)

\* the positions of rows that are outage points for the devices of ids
OutagePointsOf(rows, ids) == {i \in 1..Len(rows) : isOutage(rows[i], ids)}

\* C23: synthesis removes no outage.  A record with the gap flag is the same
\* after synthesis as before, whatever the device; a record in which no known
\* device has a numeric value before synthesis has none after it; the known
\* devices are the same, and so are the outage points of the dataset.
C23_SynthesisKeepsOutages ==
    Loaded =>
        /\ Len(data) = Len(Parsed)
        /\ deviceIds(Parsed, deviceNames) = Known
        /\ \A i \in 1..Len(Parsed) :
                /\ hasGapFlag(Parsed[i]) => data[i] = Parsed[i]
                /\ allMissing(Parsed[i], Known) => allMissing(data[i], Known)
        /\ OutagePointsOf(Parsed, Known) = OutagePointsOf(data, Known)

\* both devices are sparse: dev-1 was filled in a record that holds dev-2 only,
\* while a record with the gap flag beside a reading of dev-1 and a record whose
\* only latency is no number kept dev-2 empty
C23_Witness ==
    /\ Loaded
    /\ coverageCount(Parsed, <<"dev-2">>)["dev-2"] < minCoverage(Len(Parsed))
    /\ \E i, j, k \in 1..Len(data) :
            /\ ~hasGapFlag(Parsed[i]) /\ isNumeric(Cell(Parsed[i], "dev-2"))
            /\ Cell(Parsed[i], "dev-1") = Undefined /\ isNumeric(Cell(data[i], "dev-1"))
            /\ hasGapFlag(data[j]) /\ isNumeric(Cell(data[j], "dev-1"))
            /\ Cell(data[j], "dev-2") = Undefined
            /\ ~hasGapFlag(data[k]) /\ Cell(data[k], "dev-1") = NaN
            /\ Cell(data[k], "dev-2") = Undefined

----------------------------------------------------------------------------
(* The life of the brush in the tree: the parent mounts it, with or without *)
(* window.ResizeObserver, the pointer drags it, the parent unmounts it in   *)
(* any state, and mounts it again.                                          *)

InitBrushLifecycle ==
    /\ total \in {FallbackTotal, MaxShortTotal}
    /\ range = RangeOnLen(InitialRange(0), total)
    /\ localStart = range.left
    /\ localEnd = range.right
    /\ dragging = "idle"
    /\ rangeDragOffsetRef = 0
    /\ renderThrew = FALSE
    /\ onChangeCalls = 0
    /\ lastChange = <<0, 0>>
    /\ lastEvent = "init"
    /\ lastPx = 0
    /\ nEvents = 0
    /\ BrushNotRendered
    /\ fileLines = <<>>
    /\ parseCall = <<"none">>
    /\ parseResult = NotParsed
    /\ ChartNotMounted

\* the parent renders the brush: useState(startIndex), useState(endIndex),
\* useState(null) for dragging, the first render, then the effects
MountBrush(ro) ==
    /\ ~brushMounted /\ ~renderThrew
    /\ nEvents < MaxEvents
    /\ localStart' = range.left
    /\ localEnd' = range.right
    /\ dragging' = "idle"
    /\ renderThrew' = RenderThrows(range.left, range.right)
    /\ IF renderThrew' THEN SetDom(FALSE, Unmounted) ELSE SetDom(TRUE, Mounting(ro))
    /\ Tick("mount")
    /\ UNCHANGED <<total, range, rangeDragOffsetRef, onChangeCalls, lastChange, lastPx,
                   parseVars, chartVars>>

\* the parent removes the brush from the tree, whatever its state
UnmountBrush ==
    /\ brushMounted
    /\ nEvents < MaxEvents
    /\ SetDom(FALSE, Teardown(Dom))
    /\ Tick("unmount")
    /\ UNCHANGED <<total, range, localStart, localEnd, dragging, rangeDragOffsetRef,
                   renderThrew, onChangeCalls, lastChange, lastPx, parseVars, chartVars>>

NextBrushLifecycle ==
    \/ Next
    \/ \E ro \in BOOLEAN : MountBrush(ro)
    \/ UnmountBrush

SpecBrushLifecycle == InitBrushLifecycle /\ [][NextBrushLifecycle]_vars

----------------------------------------------------------------------------
(* The coordinate mapping of the brush *)

\* the mapping applied: the band is pressed at any pointer position, on every
\* dataset length, and the index under the pointer goes into the drag offset
NextMapping == \E px \in Pointer : MouseDownBand(px)

SpecMapping == Init /\ [][NextMapping]_vars

\* the double pxFromIndex returns is not the exact fraction: the position handed
\* back to indexFromPx lies within one part in FloatGrain of a pixel of it (far
\* more than the rounding of three double operations)
FloatGrain == 1000

FloatErrors == (0 - 1)..1

\* indexFromPx of the double pxFromIndex(i) returned, off by err grains
BackFromPx(i, err) ==
    LET px == pxFromIndex(i)
    IN  indexFromPxRatio(px[1] * FloatGrain + err * px[2], px[2] * FloatGrain)

\* C25: with two or more records (the track is TrackWidth > 0 pixels wide)
\* indexFromPx gives an index of the dataset for every pointer position, 0 left
\* of the track and total - 1 right of it, never decreases as the position
\* grows, and gives i back for the position pxFromIndex(i) of every index i;
\* with one record both mappings give 0.
C25_PixelIndexMapping ==
    /\ \A px \in Pointer : indexFromPx(px) = indexFromPxRatio(px, 1)
    /\ total >= 2 =>
            /\ \A px \in Pointer :
                    /\ indexFromPx(px) \in 0..(total - 1)
                    /\ px <= 0 => indexFromPx(px) = 0
                    /\ px >= TrackWidth => indexFromPx(px) = total - 1
                    /\ \A qx \in Pointer : px <= qx => indexFromPx(px) <= indexFromPx(qx)
            /\ \A i \in 0..(total - 1) : \A err \in FloatErrors : BackFromPx(i, err) = i
    /\ total <= 1 =>
            /\ \A px \in Pointer : indexFromPx(px) = 0
            /\ \A i \in 0..(total - 1) : pxFromIndex(i)[1] = 0

\* the band was pressed at a position strictly inside the track that maps to an
\* index strictly inside the dataset, and that index maps back to itself
C25_Witness ==
    /\ lastEvent = "downBand"
    /\ total >= 3
    /\ 0 < lastPx /\ lastPx < TrackWidth
    /\ rangeDragOffsetRef + localStart = indexFromPx(lastPx)
    /\ 0 < indexFromPx(lastPx) /\ indexFromPx(lastPx) < total - 1
    /\ BackFromPx(indexFromPx(lastPx), 1) = indexFromPx(lastPx)
    /\ pxFromIndex(indexFromPx(lastPx))[1] % pxFromIndex(indexFromPx(lastPx))[2] # 0

----------------------------------------------------------------------------
(* The baseline of the synthesizer: four devices, each record holding a     *)
(* reading of dev-1, of dev-2, of both, of dev-3, or of dev-3 and dev-4.    *)

BaselineKinds ==
    {("dev-1" :> "7.0") @@ ("dev-2" :> "") @@ ("dev-3" :> "") @@ ("dev-4" :> ""),
     ("dev-1" :> "") @@ ("dev-2" :> "9.64") @@ ("dev-3" :> "") @@ ("dev-4" :> ""),
     ("dev-1" :> "7.0") @@ ("dev-2" :> "9.64") @@ ("dev-3" :> "") @@ ("dev-4" :> ""),
     ("dev-1" :> "") @@ ("dev-2" :> "") @@ ("dev-3" :> "7.0") @@ ("dev-4" :> ""),
     ("dev-1" :> "") @@ ("dev-2" :> "") @@ ("dev-3" :> "7.0") @@ ("dev-4" :> "25.0")}

InitBaseline ==
    InitChart(BaselineKinds, <<"dev-1", "dev-2", "dev-3", "dev-4">>, MaxRecords)

SpecBaseline == InitBaseline /\ [][NextSynth]_vars

\* C26: every synthesized value is computed from the median of the values the
\* base devices had in that record before synthesis; no value written earlier
\* in the same pass enters it.
C26_BaselineFromOriginalValues ==
    Loaded =>
        \A i \in 1..Len(Parsed) : \A id \in Known :
            (~isNumeric(Cell(Parsed[i], id)) /\ isNumeric(Cell(data[i], id))) =>
                data[i][id] = SynthValue(id, i - 1, baselineAt(Parsed[i], ParsedBase))

----------------------------------------------------------------------------
(* The frame of the synthesizer *)

\* the device identifiers of the parsed file: the keys of names other than gap
ParsedDevices == {id \in DOMAIN parseResult.names : id # "gap"}

\* C27: synthesis leaves the timestamp, the gap flag and the band tags of every
\* record as the parser returned them, and gives a value to no key other than
\* a device identifier.
C27_SynthesisWritesLatencyOnly ==
    Loaded =>
        \A i \in 1..Len(Parsed) :
            /\ data[i]["x"] = Parsed[i]["x"]
            /\ Cell(data[i], "gap") = Cell(Parsed[i], "gap")
            /\ \A id \in ParsedDevices :
                    Cell(data[i], BAND_META_PREFIX \o id) = Cell(Parsed[i], BAND_META_PREFIX \o id)
            /\ (DOMAIN data[i] \ DOMAIN Parsed[i]) \subseteq ParsedDevices

----------------------------------------------------------------------------
(* The device filters of the chart view: selection and isolation *)

\* the devices drawn: the isolated one alone, else the selection, empty for all
visibleDeviceIds(ids, selected, isolated) ==
    IF isolated # "" THEN {id \in ids : id = isolated}
    ELSE IF selected = {} THEN ids
    ELSE {id \in ids : id \in selected}

\* the updater of the checkbox and of the legend entry: toggle id in the
\* selection made explicit, and store the full selection as the empty one
toggleClient(prev, ids, id) ==
    LET base == IF prev = {} THEN ids ELSE prev
        next == IF id \in base THEN base \ {id} ELSE base \cup {id}
    IN  IF Cardinality(next) = Cardinality(ids) THEN {} ELSE next

\* the chart is on display: loaded, no error, and its render did not throw
ChartShown == ~loading /\ error = "" /\ ~renderThrew

\* the legend lists the devices of the selection, under isolation the isolated one
InLegend(id) ==
    /\ (selectedClients = {} \/ id \in selectedClients)
    /\ (isolatedDevice = "" \/ isolatedDevice = id)

\* the filter state changes hands; the file, the loads and the brush stay
FiltersSet(selected, isolated) ==
    /\ selectedClients' = selected
    /\ isolatedDevice' = isolated
    /\ UNCHANGED <<data, deviceNames, loading, error, loadVars, parseVars, brushVars>>

\* a click on the legend entry of id, with or without the Alt key
LegendClick(id, altKey) ==
    /\ ChartShown
    /\ id \in deviceIds(data, deviceNames)
    /\ InLegend(id)
    /\ IF isolatedDevice = id THEN FiltersSet({}, "")
       ELSE IF altKey THEN FiltersSet(selectedClients, id)
       ELSE FiltersSet(toggleClient(selectedClients, deviceIds(data, deviceNames), id),
                       isolatedDevice)

\* a change of the checkbox of id in the clients panel, which lists every
\* device, under isolation the isolated one alone
ClientCheckbox(id) ==
    /\ ChartShown
    /\ id \in deviceIds(data, deviceNames)
    /\ isolatedDevice = "" \/ isolatedDevice = id
    /\ FiltersSet(toggleClient(selectedClients, deviceIds(data, deviceNames), id),
                  isolatedDevice)

\* a click on "show hidden devices", offered while something is filtered
ShowHidden ==
    /\ ChartShown
    /\ selectedClients # {} \/ isolatedDevice # ""
    /\ FiltersSet({}, "")

MaxFilterRecords == 2

\* records of the filter runs: a file of one device, a file of three
OneDeviceKinds == {("dev-1" :> "7.0")}

FilterKinds ==
    {("dev-1" :> a) @@ ("dev-2" :> "9.64") @@ ("dev-3" :> c) : a, c \in {"", "7.0"}}

FilterIds == {"dev-1", "dev-2", "dev-3"}

InitFilters ==
    \/ InitChart(OneDeviceKinds, <<"dev-1">>, MaxFilterRecords)
    \/ InitChart(FilterKinds, <<"dev-1", "dev-2", "dev-3">>, MaxFilterRecords)

NextFilters ==
    \/ \E call \in ChartCalls : LoadResolves(call)
    \/ \E id \in FilterIds : \E altKey \in BOOLEAN : LegendClick(id, altKey)
    \/ \E id \in FilterIds : ClientCheckbox(id)
    \/ ShowHidden

SpecFilters == InitFilters /\ [][NextFilters]_vars

\* the devices on display
Visible == visibleDeviceIds(Known, selectedClients, isolatedDevice)

\* with a device known, the visible devices are some of the known ones and the
\* stored selection is not the full set
FiltersInOrder ==
    (ChartShown /\ Known # {}) =>
        /\ Visible # {}
        /\ Visible \subseteq Known
        /\ selectedClients # Known

\* a legend click or a checkbox change on the one visible device
HidesLastVisible ==
    /\ ChartShown
    /\ Visible # {}
    /\ \E id \in Visible :
        /\ Visible = {id}
        /\ \/ LegendClick(id, FALSE)
           \/ ClientCheckbox(id)

\* C28: with a device known, after any legend clicks, Alt-clicks, checkbox
\* changes and "show hidden devices" clicks the visible devices are a non-empty
\* subset of the known ones, the stored selection is never the full device set,
\* and hiding the last visible device shows every device again.
C28_VisibleDevices ==
    [][/\ FiltersInOrder'
       /\ HidesLastVisible => Visible' = Known]_vars

\* C28, its part on the states: holds also under isolation
C28_VisibleNonEmptySubset == FiltersInOrder

\* C28, its last part where no device is isolated, and for legend clicks
C28_LastVisibleUnlessIsolatedCheckbox ==
    [][\A id \in Known :
            (ChartShown /\ Visible = {id} /\
                \/ LegendClick(id, FALSE)
                \/ isolatedDevice = "" /\ ClientCheckbox(id)) => Visible' = Known]_vars

----------------------------------------------------------------------------
(* One drag of the brush: what a move depends on *)

\* a pointer move handled within a drag
MoveInDrag ==
    /\ dragging # "idle"
    /\ dragging' = dragging
    /\ nEvents' = nEvents + 1
    /\ lastEvent' = "move"

\* the move just handled changes the outcome of no later move of the drag:
\* wherever the pointer goes next, the selection computed from the state after
\* the move is the one computed from the state before it
LaterMovesUnaffected ==
    MoveInDrag =>
        \A px \in Pointer :
            Selection(dragging, px, localStart', localEnd', rangeDragOffsetRef')
                = Selection(dragging, px, localStart, localEnd, rangeDragOffsetRef)

\* the band was just grabbed: a move to the grab position gives the selection
\* held at pointer-down
GrabPositionGivesStart ==
    (nEvents' = nEvents + 1 /\ lastEvent' = "downBand") =>
        DragRange(lastPx', localStart', localEnd', rangeDragOffsetRef')
            = <<localStart, localEnd>>

\* C29: within one drag the selection after a pointer move depends only on the
\* pointer position of that move and on the selection at pointer-down, not on
\* the moves between (no move changes what a later move computes, so drags
\* from the same start that end at the same position agree), and in a range
\* drag the pointer back at the grab position restores the selection of the
\* drag's start.
C29_DragPathIndependent == [][LaterMovesUnaffected /\ GrabPositionGivesStart]_vars

\* C29, its first part: no move changes what a later move of the drag computes
C29_LaterMovesUnaffected == [][LaterMovesUnaffected]_vars

----------------------------------------------------------------------------
(* Bands under the brush: the slice changes, the bands of a record do not *)

\* records of the brushed band runs: dev-3, with no tag and no mesh name, at
\* three latencies, or dev-2, the mesh extender, alone
SliceKinds ==
    {("dev-2" :> "") @@ ("dev-3" :> "7.0"),
     ("dev-2" :> "") @@ ("dev-3" :> "9.64"),
     ("dev-2" :> "") @@ ("dev-3" :> "12.17"),
     ("dev-2" :> "9.64") @@ ("dev-3" :> "")}

InitSlices == InitChart(SliceKinds, <<"dev-2", "dev-3">>, MaxOutageRecords)

SpecSlices == InitSlices /\ [][NextOutage]_vars

\* variant: the quantiles are taken over the visible slice
BandedUnder_SliceQuantiles(rng) ==
    LET sliced == slicedData(data, rng)
    IN  slicedDataBanded(sliced, Known, deviceNames, deviceLatencyQuantiles(sliced, Known))

\* the band-split rows the view derives when the range is rng: the slice of
\* the data, with the names and the quantiles of the full data
BandedUnder(rng) ==
    slicedDataBanded(slicedData(data, rng), Known, deviceNames,
                     deviceLatencyQuantiles(data, Known))

\* the range that selects every record
FullRange == [left |-> 0, right |-> Len(data) - 1]

\* C30: the band-split row of a record does not depend on the brush selection:
\* whatever range the brush has reported, each record of the slice has the
\* band-split row it has when every record is selected, each band key with
\* the same value (so two ranges that both hold the record agree on it).
C30_BandsIndependentOfSlice ==
    Loaded =>
        /\ Banded = BandedUnder(range)
        /\ LET b == SliceBounds(Len(data), range.left, range.right)
               whole == BandedUnder(FullRange)
           IN  \A i \in 1..Len(data) :
                    (b[1] < i /\ i <= b[2]) => Banded[i - b[1]] = whole[i]

\* a record whose latency is the lower quartile of the full data and the upper
\* quartile of the slice selected: its value is under the 5 GHz key
C30_Witness ==
    /\ Loaded
    /\ onChangeCalls = 1
    /\ Len(data) = 4 /\ Len(Sliced) = 2
    /\ range = [left |-> 0, right |-> 1]
    /\ Quantiles["dev-3"].q25 = Num(964)
    /\ deviceLatencyQuantiles(Sliced, Known)["dev-3"].q75 = Num(964)
    /\ Sliced[2]["dev-3"] = Num(964)
    /\ Banded[2][BandKey("dev-3", "5")] = Num(964)
    /\ Banded[2][BandKey("dev-3", "24")] = Null

====
